---------------------------- MODULE Spec2Model ----------------------------
(***************************************************************************)
(* Dixon-Coles rating-and-prediction engine (phase3_dixon_coles.py).       *)
(*                                                                         *)
(* Python floats are modelled as exact rationals.  Two departures of       *)
(* IEEE-754 doubles from the reals are modelled explicitly:                *)
(*   - math.exp(-x) is 0.0 once x >= EXP_UNDERFLOW;                        *)
(*   - the time-decay parameter xi is represented by xi_base = e^xi, so    *)
(*     that exp(-xi * days) = 1 / xi_base^days is a rational.              *)
(* Ratings are reduced fractions of machine integers; the scoreline grid   *)
(* of predict() needs 6th powers and is computed on arbitrary-precision    *)
(* naturals (sequences of base-10000 digits).                              *)
(***************************************************************************)
EXTENDS Integers, Naturals, Sequences, FiniteSets, TLC

(***************************************************************************)
(* Small exact rationals: [n |-> numerator, d |-> denominator > 0],        *)
(* always reduced.                                                         *)
(***************************************************************************)
Abs(x) == IF x < 0 THEN -x ELSE x

RECURSIVE Gcd(_, _)
Gcd(a, b) == IF b = 0 THEN a ELSE Gcd(b, a % b)

Q(n, d) ==
    LET g == Gcd(Abs(n), Abs(d))
        s == IF d < 0 THEN -1 ELSE 1
    IN  [n |-> s * (n \div g), d |-> s * (d \div g)]

QInt(k) == [n |-> k, d |-> 1]

QZero == QInt(0)

QOne == QInt(1)

\* cross-cancelled before multiplying, so no intermediate exceeds the result
QMul(x, y) ==
    LET g1 == Gcd(Abs(x.n), y.d)
        g2 == Gcd(Abs(y.n), x.d)
    IN  IF x.n = 0 \/ y.n = 0 THEN QZero
        ELSE [n |-> (x.n \div g1) * (y.n \div g2), d |-> (x.d \div g2) * (y.d \div g1)]

\* x / y for y # 0 (the callers raise ZeroDivisionError before dividing by 0)
QDiv(x, y) ==
    QMul(x, IF y.n < 0 THEN [n |-> -y.d, d |-> -y.n] ELSE [n |-> y.d, d |-> y.n])

QAdd(x, y) ==
    LET g == Gcd(x.d, y.d)
    IN  Q(x.n * (y.d \div g) + y.n * (x.d \div g), (x.d \div g) * y.d)

QLess(x, y) == x.n * y.d < y.n * x.d

\* x >= k for a rational x >= 0 and an integer k
QAtLeast(x, k) == (x.n \div x.d) >= k

(***************************************************************************)
(* Arbitrary-precision naturals: little-endian sequences of base-BASE      *)
(* digits without a leading zero digit (zero is << >>); integers carry a   *)
(* sign s in {-1, 0, 1}.                                                   *)
(***************************************************************************)
BASE == 100 * 100

RECURSIVE BFromNat(_)
BFromNat(k) == IF k = 0 THEN << >> ELSE <<k % BASE>> \o BFromNat(k \div BASE)

BHead(a) == IF a = << >> THEN 0 ELSE Head(a)

BTail(a) == IF a = << >> THEN << >> ELSE Tail(a)

RECURSIVE BAddC(_, _, _)
BAddC(a, b, c) ==
    IF a = << >> /\ b = << >>
    THEN IF c = 0 THEN << >> ELSE <<c>>
    ELSE LET x == BHead(a) + BHead(b) + c
         IN  <<x % BASE>> \o BAddC(BTail(a), BTail(b), x \div BASE)

BAdd(a, b) == BAddC(a, b, 0)

RECURSIVE BStrip(_)
BStrip(a) ==
    IF a = << >> THEN << >>
    ELSE IF a[Len(a)] = 0 THEN BStrip(SubSeq(a, 1, Len(a) - 1)) ELSE a

\* a - b - c for a >= b + c, before stripping
RECURSIVE BSubC(_, _, _)
BSubC(a, b, c) ==
    IF a = << >> THEN << >>
    ELSE LET x == Head(a) - BHead(b) - c
         IN  IF x < 0 THEN <<x + BASE>> \o BSubC(Tail(a), BTail(b), 1)
             ELSE <<x>> \o BSubC(Tail(a), BTail(b), 0)

BSub(a, b) == BStrip(BSubC(a, b, 0))

\* -1, 0, 1 as a < b, a = b, a > b
RECURSIVE BCmpAt(_, _, _)
BCmpAt(a, b, i) ==
    IF i = 0 THEN 0
    ELSE IF a[i] < b[i] THEN -1
    ELSE IF a[i] > b[i] THEN 1
    ELSE BCmpAt(a, b, i - 1)

BCmp(a, b) ==
    IF Len(a) < Len(b) THEN -1
    ELSE IF Len(a) > Len(b) THEN 1
    ELSE BCmpAt(a, b, Len(a))

\* the column sums of the schoolbook product: column k (from 1) collects
\* a[i] * b[k + 1 - i]
RECURSIVE BColumn(_, _, _, _, _)
BColumn(a, b, k, i, last) ==
    IF i > last THEN 0
    ELSE a[i] * b[k + 1 - i] + BColumn(a, b, k, i + 1, last)

\* the digits of the columns k .. n with the carry c brought in
RECURSIVE BCarry(_, _, _, _, _)
BCarry(a, b, k, n, c) ==
    IF k > n
    THEN IF c = 0 THEN << >> ELSE <<c>>
    ELSE LET lo == IF k > Len(b) THEN k + 1 - Len(b) ELSE 1
             hi == IF k < Len(a) THEN k ELSE Len(a)
             x == BColumn(a, b, k, lo, hi) + c
         IN  <<x % BASE>> \o BCarry(a, b, k + 1, n, x \div BASE)

\* a column of at most BLimit digit products stays a machine integer
BLimit == 2147483647 \div (BASE * BASE)

BZeros(n) == [k \in 1..n |-> 0]

RECURSIVE BMul(_, _)
BMul(a, b) ==
    IF a = << >> \/ b = << >> THEN << >>
    ELSE IF Len(b) <= BLimit THEN BCarry(a, b, 1, Len(a) + Len(b) - 1, 0)
    ELSE BAdd(BMul(a, SubSeq(b, 1, BLimit)),
              BZeros(BLimit) \o BMul(a, SubSeq(b, BLimit + 1, Len(b))))

ZFromInt(k) ==
    [s |-> IF k < 0 THEN -1 ELSE IF k = 0 THEN 0 ELSE 1, m |-> BFromNat(Abs(k))]

ZZero == ZFromInt(0)

ZOne == ZFromInt(1)

ZMul(x, y) == [s |-> x.s * y.s, m |-> BMul(x.m, y.m)]

ZNeg(x) == [s |-> -x.s, m |-> x.m]

ZAdd(x, y) ==
    IF x.s = 0 THEN y
    ELSE IF y.s = 0 THEN x
    ELSE IF x.s = y.s THEN [s |-> x.s, m |-> BAdd(x.m, y.m)]
    ELSE LET c == BCmp(x.m, y.m)
         IN  IF c = 0 THEN ZZero
             ELSE IF c > 0 THEN [s |-> x.s, m |-> BSub(x.m, y.m)]
             ELSE [s |-> y.s, m |-> BSub(y.m, x.m)]

ZLess(x, y) == ZAdd(x, ZNeg(y)).s < 0

RECURSIVE ZPow(_, _)
ZPow(x, k) == IF k = 0 THEN ZOne ELSE ZMul(x, ZPow(x, k - 1))

(***************************************************************************)
(* DixonColesModel: parameters, ratings, prediction                        *)
(***************************************************************************)
VARIABLES
    xi_base,          \* e^(self.xi)
    home_advantage,   \* self.home_advantage
    rho,              \* self.rho
    team_attack,      \* self.team_attack: team -> rating
    team_defense,     \* self.team_defense: team -> rating
    key_order,        \* insertion order of the keys of self.team_attack
    teams,            \* self.teams
    frame,            \* the locals of the running fit() call, and where it is
    fit_result,       \* how the latest fit() call ended
    stdout,           \* the lines printed by the latest call
    pred,             \* the prediction the caller holds (latest predict())
    pred_fresh,       \* no rating was written since pred was returned
    reads,            \* the ratings a predict() on another thread has read
    nfits,            \* fit() calls so far
    call,             \* the latest call of a function on its own: arguments, result
    db,               \* features.match_features and the connection's transaction
    calib,            \* the locals of main() in its loop over the test matches
    etl               \* the ingestion run: downloader, odds collector, checkpoints

vars == <<xi_base, home_advantage, rho, team_attack, team_defense, key_order,
          teams, frame, fit_result, stdout, pred, pred_fresh, reads, nfits,
          call, db, calib, etl>>

\* the variables fit() and predict() leave alone
side == <<call, db, calib, etl>>

model_state == <<xi_base, home_advantage, rho, team_attack, team_defense,
                 key_order, teams>>

\* dict.get(key, default)
Get(dict, key, default) == IF key \in DOMAIN dict THEN dict[key] ELSE default

\* max_goals of predict()
MAX_GOALS == 6

\* math.exp(-x) is 0.0 in IEEE-754 double precision for every x >= 746
EXP_UNDERFLOW == 746

MathExpIsZero(x) == QAtLeast(x, EXP_UNDERFLOW)

RECURSIVE Factorial(_)
Factorial(k) == IF k = 0 THEN 1 ELSE k * Factorial(k - 1)

\* (x ** i) / math.factorial(i) for x = p/q, as a numerator over the
\* denominator MAX_GOALS! * q^MAX_GOALS
PoissonNum(x, i) ==
    ZMul(ZFromInt(Factorial(MAX_GOALS) \div Factorial(i)),
         ZMul(ZPow(ZFromInt(x.n), i), ZPow(ZFromInt(x.d), MAX_GOALS - i)))

PoissonDen(x) == ZMul(ZFromInt(Factorial(MAX_GOALS)), ZPow(ZFromInt(x.d), MAX_GOALS))

\* tau_correction(home_goals, away_goals, lambda_h, mu_a) with self.rho = r,
\* as a numerator over the denominator TauDen
TauDen(lambda_h, mu_a, r) ==
    ZMul(ZFromInt(lambda_h.d), ZMul(ZFromInt(mu_a.d), ZFromInt(r.d)))

\* lines 124-133 with rho left out of the correction of the scoreline (0,0)
TauCorrectionWithoutRho(home_goals, away_goals, lambda_h, mu_a, r) ==
    LET ln == ZFromInt(lambda_h.n)
        ld == ZFromInt(lambda_h.d)
        mn == ZFromInt(mu_a.n)
        md == ZFromInt(mu_a.d)
        rn == ZFromInt(r.n)
        rd == ZFromInt(r.d)
    IN  IF home_goals = 0 /\ away_goals = 0
        THEN ZMul(ZAdd(ZMul(ld, md), ZNeg(ZMul(ln, mn))), rd)
        ELSE IF home_goals = 0 /\ away_goals = 1
        THEN ZMul(ZAdd(ZMul(ld, rd), ZMul(ln, rn)), md)
        ELSE IF home_goals = 1 /\ away_goals = 0
        THEN ZMul(ZAdd(ZMul(md, rd), ZMul(mn, rn)), ld)
        ELSE IF home_goals = 1 /\ away_goals = 1
        THEN ZMul(ZAdd(rd, ZNeg(rn)), ZMul(ld, md))
        ELSE ZMul(ld, ZMul(md, rd))

\* lines 124-133 with the corrections of the scorelines (0,1) and (1,0)
\* exchanged
TauCorrectionExchanged(home_goals, away_goals, lambda_h, mu_a, r) ==
    LET ln == ZFromInt(lambda_h.n)
        ld == ZFromInt(lambda_h.d)
        mn == ZFromInt(mu_a.n)
        md == ZFromInt(mu_a.d)
        rn == ZFromInt(r.n)
        rd == ZFromInt(r.d)
    IN  IF home_goals = 0 /\ away_goals = 0
        THEN ZAdd(ZMul(ld, ZMul(md, rd)), ZNeg(ZMul(ln, ZMul(mn, rn))))
        ELSE IF home_goals = 0 /\ away_goals = 1
        THEN ZMul(ZAdd(ZMul(md, rd), ZMul(mn, rn)), ld)
        ELSE IF home_goals = 1 /\ away_goals = 0
        THEN ZMul(ZAdd(ZMul(ld, rd), ZMul(ln, rn)), md)
        ELSE IF home_goals = 1 /\ away_goals = 1
        THEN ZMul(ZAdd(rd, ZNeg(rn)), ZMul(ld, md))
        ELSE ZMul(ld, ZMul(md, rd))

tau_correction(home_goals, away_goals, lambda_h, mu_a, r) ==
    LET ln == ZFromInt(lambda_h.n)
        ld == ZFromInt(lambda_h.d)
        mn == ZFromInt(mu_a.n)
        md == ZFromInt(mu_a.d)
        rn == ZFromInt(r.n)
        rd == ZFromInt(r.d)
    IN  IF home_goals = 0 /\ away_goals = 0
        THEN \* 1 - lambda_h * mu_a * rho
             ZAdd(ZMul(ld, ZMul(md, rd)), ZNeg(ZMul(ln, ZMul(mn, rn))))
        ELSE IF home_goals = 0 /\ away_goals = 1
        THEN \* 1 + lambda_h * rho
             ZMul(ZAdd(ZMul(ld, rd), ZMul(ln, rn)), md)
        ELSE IF home_goals = 1 /\ away_goals = 0
        THEN \* 1 + mu_a * rho
             ZMul(ZAdd(ZMul(md, rd), ZMul(mn, rn)), ld)
        ELSE IF home_goals = 1 /\ away_goals = 1
        THEN \* 1 - rho
             ZMul(ZAdd(rd, ZNeg(rn)), ZMul(ld, md))
        ELSE \* 1.0
             ZMul(ld, ZMul(md, rd))

\* The double loop of predict() over the scorelines (i, j), 0 <= i, j <=
\* MAX_GOALS: score_prob is added to home_win_prob when i > j, to draw_prob
\* when i = j and to away_win_prob otherwise.  score[i][j] is score_prob, a
\* numerator over one common denominator.
NoSums == [home |-> ZZero, draw |-> ZZero, away |-> ZZero]

\* the inner loop for one i, after j = 0 .. n-1
RECURSIVE InnerLoop(_, _, _)
InnerLoop(score, i, n) ==
    IF n = 0 THEN NoSums
    ELSE LET acc == InnerLoop(score, i, n - 1)
             j == n - 1
         IN  IF i > j THEN [acc EXCEPT !.home = ZAdd(@, score[i][j])]
             ELSE IF i = j THEN [acc EXCEPT !.draw = ZAdd(@, score[i][j])]
             ELSE [acc EXCEPT !.away = ZAdd(@, score[i][j])]

\* the outer loop, after i = 0 .. n-1
RECURSIVE OuterLoop(_, _)
OuterLoop(score, n) ==
    IF n = 0 THEN NoSums
    ELSE LET acc == OuterLoop(score, n - 1)
             row == InnerLoop(score, n - 1, MAX_GOALS + 1)
         IN  [home |-> ZAdd(acc.home, row.home),
              draw |-> ZAdd(acc.draw, row.draw),
              away |-> ZAdd(acc.away, row.away)]

\* ReadRatings with 0.0 as the default of the four reads
ReadRatingsZeroDefault(att, def, home_team, away_team) ==
    [home_attack |-> Get(att, home_team, QZero),
     home_defense |-> Get(def, home_team, QZero),
     away_attack |-> Get(att, away_team, QZero),
     away_defense |-> Get(def, away_team, QZero)]

\* ReadRatings with the attack and the defense dictionaries exchanged
ReadRatingsExchanged(att, def, home_team, away_team) ==
    [home_attack |-> Get(def, home_team, QOne),
     home_defense |-> Get(att, home_team, QOne),
     away_attack |-> Get(def, away_team, QOne),
     away_defense |-> Get(att, away_team, QOne)]

\* predict(), lines 222-226: the four dictionary reads
ReadRatings(att, def, home_team, away_team) ==
    [home_attack |-> Get(att, home_team, QOne),
     home_defense |-> Get(def, home_team, QOne),
     away_attack |-> Get(att, away_team, QOne),
     away_defense |-> Get(def, away_team, QOne)]

\* predict(home_team, away_team), lines 228-277, on the ratings read: the
\* local total of line 259 (a numerator over the common denominator, up to
\* the factor e^(-lambda_h - mu_a) >= 0) and the returned dict.  Each
\* probability is a big rational; when the sums are not normalized it stands
\* for the bucket sum up to that factor.  lambda_h ** i stays far below the
\* largest double for the ratings the histories below produce.
PredictFrom(rd, ha, r, xi) ==
    LET home_attack == rd.home_attack
        home_defense == rd.home_defense
        away_attack == rd.away_attack
        away_defense == rd.away_defense
        home_attack_adj == QMul(home_attack, QAdd(QOne, ha))
        lambda_h == QMul(home_attack_adj, away_defense)
        mu_a == QMul(away_attack, home_defense)
        exp_zero == MathExpIsZero(lambda_h) \/ MathExpIsZero(mu_a)
        ph == [i \in 0..MAX_GOALS |-> PoissonNum(lambda_h, i)]
        pa == [j \in 0..MAX_GOALS |-> PoissonNum(mu_a, j)]
        score == [i \in 0..MAX_GOALS |-> [j \in 0..MAX_GOALS |->
                    IF exp_zero THEN ZZero
                    ELSE ZMul(ZMul(ph[i], pa[j]),
                              tau_correction(i, j, lambda_h, mu_a, r))]]
        den == IF exp_zero THEN ZOne
               ELSE ZMul(ZMul(PoissonDen(lambda_h), PoissonDen(mu_a)),
                         TauDen(lambda_h, mu_a, r))
        sums == OuterLoop(score, MAX_GOALS + 1)
        total == ZAdd(ZAdd(sums.home, sums.draw), sums.away)
        by == IF total.s > 0 THEN total ELSE den
    IN  [total |-> total,
         returned |->
            [home_win_prob |-> [n |-> sums.home, d |-> by],
             draw_prob |-> [n |-> sums.draw, d |-> by],
             away_win_prob |-> [n |-> sums.away, d |-> by],
             expected_home_goals |-> lambda_h,
             expected_away_goals |-> mu_a,
             home_attack |-> home_attack,
             home_defense |-> home_defense,
             away_attack |-> away_attack,
             away_defense |-> away_defense,
             rho |-> r,
             xi |-> xi]]

Predict(att, def, ha, r, xi, home_team, away_team) ==
    PredictFrom(ReadRatings(att, def, home_team, away_team), ha, r, xi)

(***************************************************************************)
(* The match history (raw.fixtures) and the inputs of fit()                *)
(***************************************************************************)
TEAMS == {"A", "B", "C"}

\* The ingested match records, one per fixture_id; match_date in days.
FIXTURES ==
    << [fixture_id |-> 1, home_team |-> "A", away_team |-> "B",
        home_goals |-> 0, away_goals |-> 0, match_date |-> 1],
       [fixture_id |-> 2, home_team |-> "A", away_team |-> "C",
        home_goals |-> 0, away_goals |-> 2, match_date |-> 2],
       [fixture_id |-> 3, home_team |-> "A", away_team |-> "C",
        home_goals |-> 1, away_goals |-> 2, match_date |-> 1],
       [fixture_id |-> 4, home_team |-> "B", away_team |-> "C",
        home_goals |-> 0, away_goals |-> 0, match_date |-> 4] >>

\* the longest history passed to fit()
MaxMatches == 3

\* the number of fit() calls on the model
MaxFits == 2

\* the number of predict() calls the caller makes for the pair it asks about
MaxCalls == 2

\* the records of FIXTURES with an id in ids, in table order, from index k
RECURSIVE Select(_, _)
Select(ids, k) ==
    IF k > Len(FIXTURES) THEN << >>
    ELSE IF k \in ids THEN <<FIXTURES[k]>> \o Select(ids, k + 1)
    ELSE Select(ids, k + 1)

Histories ==
    {Select(ids, 1) : ids \in {x \in SUBSET (1..Len(FIXTURES)) : Cardinality(x) <= MaxMatches}}

\* current_date of fit(): << >> is None, <<d>> is the date d
CurrentDates == {<< >>, <<4>>}

\* the constructor arguments: xi (as e^xi), home_advantage, rho
XI_BASES == {8}

HOME_ADVANTAGES == {Q(3, 10)}

RHOS == {Q(-13, 100)}

(***************************************************************************)
(* fit()                                                                   *)
(***************************************************************************)
EmptyDict == [t \in {} |-> QZero]

Put(dict, key, value) ==
    IF key \in DOMAIN dict THEN [dict EXCEPT ![key] = value]
    ELSE dict @@ (key :> value)

RECURSIVE Pow(_, _)
Pow(b, k) == IF k = 0 THEN 1 ELSE b * Pow(b, k - 1)

\* time_decay_weight: exp(-xi * days_diff), with xi = ln(base)
time_decay_weight(base, match_date, current_date) ==
    LET days_diff == current_date - match_date
    IN  IF days_diff >= 0 THEN Q(1, Pow(base, days_diff))
        ELSE QInt(Pow(base, -days_diff))

RECURSIVE MaxDate(_)
MaxDate(matches) ==
    IF Len(matches) = 1 THEN matches[1].match_date
    ELSE LET m == MaxDate(Tail(matches))
         IN  IF matches[1].match_date > m THEN matches[1].match_date ELSE m

\* sum() of a sequence of rationals
RECURSIVE Sum(_)
Sum(values) == IF values = << >> THEN QZero ELSE QAdd(Head(values), Sum(Tail(values)))

NewStats == [goals_scored |-> QZero, goals_conceded |-> QZero, weighted_matches |-> QZero]

IdleFrame ==
    [pc |-> "idle", matches |-> << >>, current_date |-> 0, i |-> 0,
     team_stats |-> EmptyDict, stats_order |-> << >>,
     league_avg_goals |-> QZero, avg_attack |-> QZero,
     pre_attack |-> EmptyDict, pre_defense |-> EmptyDict]

\* lines 143-150: the call, the default reference date; max() of an empty
\* sequence raises ValueError.  frame.pre_attack and frame.pre_defense keep
\* the ratings in force when fit() was called.
FitBegin(matches, current_date) ==
    /\ frame.pc = "idle"
    /\ nfits < MaxFits
    /\ nfits' = nfits + 1
    /\ stdout' = <<"[4/5] Training Dixon-Coles model...">>
    /\ IF current_date = << >> /\ matches = << >>
       THEN /\ fit_result' = "ValueError"
            /\ frame' = IdleFrame
       ELSE /\ fit_result' = "running"
            /\ frame' = [IdleFrame EXCEPT
                   !.pc = "loop",
                   !.matches = matches,
                   !.pre_attack = team_attack,
                   !.pre_defense = team_defense,
                   !.current_date = IF current_date = << >> THEN MaxDate(matches)
                                    ELSE current_date[1],
                   !.i = 1]
    /\ UNCHANGED <<model_state, pred, pred_fresh, reads>>
    /\ UNCHANGED side

\* lines 152-184 without the update of the away team's statistics (lines
\* 181-184)
FitMatchHomeOnly ==
    /\ frame.pc = "loop"
    /\ frame.i <= Len(frame.matches)
    /\ LET match == frame.matches[frame.i]
           home_team == match.home_team
           away_team == match.away_team
           weight == time_decay_weight(xi_base, match.match_date, frame.current_date)
           s0 == frame.team_stats
           s1 == IF home_team \in DOMAIN s0 THEN s0 ELSE s0 @@ (home_team :> NewStats)
           s2 == IF away_team \in DOMAIN s1 THEN s1 ELSE s1 @@ (away_team :> NewStats)
           o1 == IF home_team \in DOMAIN s0 THEN frame.stats_order
                 ELSE Append(frame.stats_order, home_team)
           o2 == IF away_team \in DOMAIN s1 THEN o1 ELSE Append(o1, away_team)
           hg == QMul(QInt(match.home_goals), weight)
           ag == QMul(QInt(match.away_goals), weight)
           s3 == [s2 EXCEPT ![home_team] =
                     [goals_scored |-> QAdd(@.goals_scored, hg),
                      goals_conceded |-> QAdd(@.goals_conceded, ag),
                      weighted_matches |-> QAdd(@.weighted_matches, weight)]]
       IN  /\ teams' = teams \cup {home_team, away_team}
           /\ frame' = [frame EXCEPT !.team_stats = s3, !.stats_order = o2,
                                     !.i = frame.i + 1]
    /\ UNCHANGED <<xi_base, home_advantage, rho, team_attack, team_defense,
                   key_order, fit_result, stdout, pred, pred_fresh, reads, nfits>>
    /\ UNCHANGED side

\* lines 152-184: one iteration of the loop over the matches
FitMatch ==
    /\ frame.pc = "loop"
    /\ frame.i <= Len(frame.matches)
    /\ LET match == frame.matches[frame.i]
           home_team == match.home_team
           away_team == match.away_team
           weight == time_decay_weight(xi_base, match.match_date, frame.current_date)
           s0 == frame.team_stats
           s1 == IF home_team \in DOMAIN s0 THEN s0 ELSE s0 @@ (home_team :> NewStats)
           s2 == IF away_team \in DOMAIN s1 THEN s1 ELSE s1 @@ (away_team :> NewStats)
           o1 == IF home_team \in DOMAIN s0 THEN frame.stats_order
                 ELSE Append(frame.stats_order, home_team)
           o2 == IF away_team \in DOMAIN s1 THEN o1 ELSE Append(o1, away_team)
           hg == QMul(QInt(match.home_goals), weight)
           ag == QMul(QInt(match.away_goals), weight)
           s3 == [s2 EXCEPT ![home_team] =
                     [goals_scored |-> QAdd(@.goals_scored, hg),
                      goals_conceded |-> QAdd(@.goals_conceded, ag),
                      weighted_matches |-> QAdd(@.weighted_matches, weight)]]
           s4 == [s3 EXCEPT ![away_team] =
                     [goals_scored |-> QAdd(@.goals_scored, ag),
                      goals_conceded |-> QAdd(@.goals_conceded, hg),
                      weighted_matches |-> QAdd(@.weighted_matches, weight)]]
       IN  /\ teams' = teams \cup {home_team, away_team}
           /\ frame' = [frame EXCEPT !.team_stats = s4, !.stats_order = o2,
                                     !.i = frame.i + 1]
    /\ UNCHANGED <<xi_base, home_advantage, rho, team_attack, team_defense,
                   key_order, fit_result, stdout, pred, pred_fresh, reads, nfits>>
    /\ UNCHANGED side

\* lines 186-192: the weighted league average
FitLeagueAverage ==
    /\ frame.pc = "loop"
    /\ frame.i > Len(frame.matches)
    /\ LET total_weighted_goals ==
               Sum([k \in 1..Len(frame.stats_order) |->
                        frame.team_stats[frame.stats_order[k]].goals_scored])
           total_weighted_matches ==
               Sum([k \in 1..Len(frame.stats_order) |->
                        frame.team_stats[frame.stats_order[k]].weighted_matches])
           league_avg_goals ==
               IF QLess(QZero, total_weighted_matches)
               THEN QDiv(total_weighted_goals, total_weighted_matches)
               ELSE Q(3, 2)
       IN  frame' = [frame EXCEPT !.pc = "params", !.i = 1,
                                  !.league_avg_goals = league_avg_goals]
    /\ stdout' = stdout \o <<"  - League average goals", "  - Teams analyzed">>
    /\ UNCHANGED <<model_state, fit_result, pred, pred_fresh, reads, nfits>>
    /\ UNCHANGED side

\* FitTeam with the team's averages stored before the division by the league
\* average
FitTeamStoresFirst ==
    /\ frame.pc = "params"
    /\ frame.i <= Len(frame.stats_order)
    /\ LET team == frame.stats_order[frame.i]
           stats == frame.team_stats[team]
       IN  IF ~QLess(QZero, stats.weighted_matches)
           THEN /\ frame' = [frame EXCEPT !.i = frame.i + 1]
                /\ UNCHANGED <<team_attack, team_defense, key_order, fit_result,
                               pred_fresh>>
           ELSE LET avg_scored == QDiv(stats.goals_scored, stats.weighted_matches)
                    avg_conceded == QDiv(stats.goals_conceded, stats.weighted_matches)
                    zero == frame.league_avg_goals = QZero
                    by == IF zero THEN QOne ELSE frame.league_avg_goals
                IN  /\ team_attack' = Put(team_attack, team, QDiv(avg_scored, by))
                    /\ team_defense' = Put(team_defense, team, QDiv(avg_conceded, by))
                    /\ key_order' = IF team \in DOMAIN team_attack THEN key_order
                                    ELSE Append(key_order, team)
                    /\ pred_fresh' = FALSE
                    /\ frame' = IF zero THEN IdleFrame
                                ELSE [frame EXCEPT !.i = frame.i + 1]
                    /\ fit_result' = IF zero THEN "ZeroDivisionError" ELSE fit_result
    /\ UNCHANGED <<xi_base, home_advantage, rho, teams, stdout, pred, reads,
                   nfits>>
    /\ UNCHANGED side

\* lines 195-204: one iteration of the loop over team_stats; dividing by a
\* league average of 0 raises ZeroDivisionError
FitTeam ==
    /\ frame.pc = "params"
    /\ frame.i <= Len(frame.stats_order)
    /\ LET team == frame.stats_order[frame.i]
           stats == frame.team_stats[team]
       IN  IF ~QLess(QZero, stats.weighted_matches)
           THEN /\ frame' = [frame EXCEPT !.i = frame.i + 1]
                /\ UNCHANGED <<team_attack, team_defense, key_order, fit_result,
                               pred_fresh>>
           ELSE IF frame.league_avg_goals = QZero
           THEN /\ fit_result' = "ZeroDivisionError"
                /\ frame' = IdleFrame
                /\ UNCHANGED <<team_attack, team_defense, key_order, pred_fresh>>
           ELSE LET avg_scored == QDiv(stats.goals_scored, stats.weighted_matches)
                    avg_conceded == QDiv(stats.goals_conceded, stats.weighted_matches)
                    attack == QDiv(avg_scored, frame.league_avg_goals)
                    defense == QDiv(avg_conceded, frame.league_avg_goals)
                IN  /\ team_attack' = Put(team_attack, team, attack)
                    /\ team_defense' = Put(team_defense, team, defense)
                    /\ key_order' = IF team \in DOMAIN team_attack THEN key_order
                                    ELSE Append(key_order, team)
                    /\ pred_fresh' = FALSE
                    /\ frame' = [frame EXCEPT !.i = frame.i + 1]
                    /\ UNCHANGED fit_result
    /\ UNCHANGED <<xi_base, home_advantage, rho, teams, stdout, pred, reads,
                   nfits>>
    /\ UNCHANGED side

\* line 207 with the mean taken over the teams of this call's matches
\* only, instead of over every key of self.team_attack
FitMeanAttackOverHistory ==
    /\ frame.pc = "params"
    /\ frame.i > Len(frame.stats_order)
    /\ LET order == frame.stats_order
           avg_attack ==
               IF order # << >>
               THEN QDiv(Sum([k \in 1..Len(order) |-> team_attack[order[k]]]),
                         QInt(Len(order)))
               ELSE QOne
       IN  frame' = [frame EXCEPT !.pc = "normalize", !.i = 1,
                                  !.avg_attack = avg_attack]
    /\ UNCHANGED <<model_state, fit_result, stdout, pred, pred_fresh, reads,
                   nfits>>
    /\ UNCHANGED side

\* line 207: the mean attack over every key of self.team_attack
FitMeanAttack ==
    /\ frame.pc = "params"
    /\ frame.i > Len(frame.stats_order)
    /\ LET avg_attack ==
               IF key_order # << >>
               THEN QDiv(Sum([k \in 1..Len(key_order) |-> team_attack[key_order[k]]]),
                         QInt(Len(key_order)))
               ELSE QOne
       IN  frame' = [frame EXCEPT !.pc = "normalize", !.i = 1,
                                  !.avg_attack = avg_attack]
    /\ UNCHANGED <<model_state, fit_result, stdout, pred, pred_fresh, reads,
                   nfits>>
    /\ UNCHANGED side

\* lines 208-210: one iteration of the normalization loop
FitNormalize ==
    /\ frame.pc = "normalize"
    /\ frame.i <= Len(key_order)
    /\ LET team == key_order[frame.i]
       IN  /\ team_attack' =
                  [team_attack EXCEPT ![team] = QDiv(@, frame.avg_attack)]
           /\ team_defense' =
                  [team_defense EXCEPT ![team] = QDiv(@, frame.avg_attack)]
    /\ pred_fresh' = FALSE
    /\ frame' = [frame EXCEPT !.i = frame.i + 1]
    /\ UNCHANGED <<xi_base, home_advantage, rho, key_order, teams, fit_result,
                   stdout, pred, reads, nfits>>
    /\ UNCHANGED side

\* lines 212-213
FitReturn ==
    /\ frame.pc = "normalize"
    /\ frame.i > Len(key_order)
    /\ fit_result' = "True"
    /\ stdout' = Append(stdout, "  - Model training complete")
    /\ frame' = IdleFrame
    /\ UNCHANGED <<model_state, pred, pred_fresh, reads, nfits>>
    /\ UNCHANGED side

Fit ==
    \/ \E matches \in Histories, current_date \in CurrentDates :
           FitBegin(matches, current_date)
    \/ FitMatch
    \/ FitLeagueAverage
    \/ FitTeam
    \/ FitMeanAttack
    \/ FitNormalize
    \/ FitReturn

(***************************************************************************)
(* predict(), called by the thread that calls fit()                        *)
(***************************************************************************)
\* PredictCall with setdefault(team, 1.0) in place of get(team, 1.0)
PredictCallSetDefault(home_team, away_team) ==
    /\ frame.pc = "idle"
    /\ \/ pred = << >>
       \/ /\ pred # << >>
          /\ pred_fresh
          /\ pred[1].calls < MaxCalls
          /\ pred[1].home_team = home_team
          /\ pred[1].away_team = away_team
    /\ LET locals == Predict(team_attack, team_defense, home_advantage, rho,
                             xi_base, home_team, away_team)
           att1 == IF home_team \in DOMAIN team_attack THEN team_attack
                   ELSE Put(team_attack, home_team, QOne)
           def1 == IF home_team \in DOMAIN team_defense THEN team_defense
                   ELSE Put(team_defense, home_team, QOne)
           ko1 == IF home_team \in DOMAIN team_attack THEN key_order
                  ELSE Append(key_order, home_team)
       IN  /\ pred' = <<[home_team |-> home_team, away_team |-> away_team,
                         calls |-> IF pred = << >> THEN 1 ELSE pred[1].calls + 1,
                         total |-> locals.total,
                         result |-> locals.returned]>>
           /\ team_attack' = IF away_team \in DOMAIN att1 THEN att1
                             ELSE Put(att1, away_team, QOne)
           /\ team_defense' = IF away_team \in DOMAIN def1 THEN def1
                              ELSE Put(def1, away_team, QOne)
           /\ key_order' = IF away_team \in DOMAIN att1 THEN ko1
                           ELSE Append(ko1, away_team)
    /\ pred_fresh' = TRUE
    /\ stdout' = << >>
    /\ UNCHANGED <<xi_base, home_advantage, rho, teams, frame, fit_result,
                   reads, nfits>>
    /\ UNCHANGED side

\* The caller asks for a prediction when it holds none, or repeats its
\* latest question while the ratings are those it was answered from.
PredictCall(home_team, away_team) ==
    /\ frame.pc = "idle"
    /\ \/ pred = << >>
       \/ /\ pred # << >>
          /\ pred_fresh
          /\ pred[1].calls < MaxCalls
          /\ pred[1].home_team = home_team
          /\ pred[1].away_team = away_team
    /\ LET locals == Predict(team_attack, team_defense, home_advantage, rho,
                             xi_base, home_team, away_team)
       IN  pred' = <<[home_team |-> home_team, away_team |-> away_team,
                      calls |-> IF pred = << >> THEN 1 ELSE pred[1].calls + 1,
                      total |-> locals.total,
                      result |-> locals.returned]>>
    /\ pred_fresh' = TRUE
    /\ stdout' = << >>
    /\ UNCHANGED <<model_state, frame, fit_result, reads, nfits>>
    /\ UNCHANGED side

\* the caller drops the prediction it holds
Discard ==
    /\ frame.pc = "idle"
    /\ pred # << >>
    /\ pred' = << >>
    /\ pred_fresh' = FALSE
    /\ UNCHANGED <<model_state, frame, fit_result, stdout, reads, nfits>>
    /\ UNCHANGED side

Pairs == {p \in TEAMS \X TEAMS : p[1] # p[2]}

Init ==
    /\ xi_base \in XI_BASES
    /\ home_advantage \in HOME_ADVANTAGES
    /\ rho \in RHOS
    /\ team_attack = EmptyDict
    /\ team_defense = EmptyDict
    /\ key_order = << >>
    /\ teams = {}
    /\ frame = IdleFrame
    /\ fit_result = "none"
    /\ stdout = << >>
    /\ pred = << >>
    /\ pred_fresh = FALSE
    /\ reads = << >>
    /\ nfits = 0
    /\ call = << >>
    /\ db = << >>
    /\ calib = << >>
    /\ etl = << >>

Next ==
    \/ Fit
    \/ \E p \in Pairs : PredictCall(p[1], p[2])
    \/ Discard

Spec == Init /\ [][Next]_vars

(***************************************************************************)
(* predict() on a second thread while fit() runs on the same model         *)
(***************************************************************************)
\* The four dictionary reads of lines 223-226 are four steps of the reading
\* thread, each of which may fall between any two steps of fit().  reads
\* holds the pair asked about, the fit() call that was running and the
\* values got so far.
ConcurrentPredict(home_team, away_team) ==
    /\ frame.pc # "idle"
    /\ reads = << >>
    /\ reads' = <<[home_team |-> home_team, away_team |-> away_team,
                   fit |-> nfits,
                   got |-> <<Get(team_attack, home_team, QOne)>>]>>
    /\ UNCHANGED <<model_state, frame, fit_result, stdout, pred, pred_fresh,
                   nfits>>
    /\ UNCHANGED side

ConcurrentGet ==
    /\ frame.pc # "idle"
    /\ reads # << >>
    /\ reads[1].fit = nfits
    /\ Len(reads[1].got) < 4
    /\ LET k == Len(reads[1].got) + 1
           value == IF k = 2 THEN Get(team_defense, reads[1].home_team, QOne)
                    ELSE IF k = 3 THEN Get(team_attack, reads[1].away_team, QOne)
                    ELSE Get(team_defense, reads[1].away_team, QOne)
       IN  reads' = <<[reads[1] EXCEPT !.got = Append(@, value)]>>
    /\ UNCHANGED <<model_state, frame, fit_result, stdout, pred, pred_fresh,
                   nfits>>
    /\ UNCHANGED side

\* the reading thread's call is over once fit() is
ConcurrentReturn ==
    /\ frame.pc = "idle"
    /\ reads # << >>
    /\ reads' = << >>
    /\ UNCHANGED <<model_state, frame, fit_result, stdout, pred, pred_fresh,
                   nfits>>
    /\ UNCHANGED side

NextConc ==
    \/ Fit
    \/ \E p \in Pairs : ConcurrentPredict(p[1], p[2])
    \/ ConcurrentGet
    \/ ConcurrentReturn

SpecConc == Init /\ [][NextConc]_vars

(***************************************************************************)
(* Properties                                                              *)
(***************************************************************************)
\* the minimum number of matches get_training_data() accepts
MIN_MATCHES == 100

ZAbs(x) == [s |-> x.s * x.s, m |-> x.m]

\* the teams appearing in a history
TeamsIn(matches) ==
    {matches[k].home_team : k \in 1..Len(matches)}
        \cup {matches[k].away_team : k \in 1..Len(matches)}

\* a step in which a predict() call of the fitting thread returns pred'
PredictReturns ==
    /\ frame.pc = "idle"
    /\ frame'.pc = "idle"
    /\ nfits' = nfits
    /\ reads' = reads
    /\ pred' # << >>

\* a step in which the running fit() call returns or raises
FitEnds == frame.pc # "idle" /\ frame'.pc = "idle"

\* C1: the home_win_prob, draw_prob and away_win_prob of every prediction
\* predict() returns sum to 1 within 1e-9 (the three share one denominator,
\* so |sum of numerators - d| * 10^9 <= d).
C1_ProbabilitiesSumToOne ==
    pred # << >> =>
        LET r == pred[1].result
            d == r.home_win_prob.d
            sum == ZAdd(ZAdd(r.home_win_prob.n, r.draw_prob.n), r.away_win_prob.n)
            gap == ZAbs(ZAdd(sum, ZNeg(d)))
        IN  ~ZLess(d, ZMul(gap, ZFromInt(Pow(10, 9))))

\* C2: each of home_win_prob, draw_prob and away_win_prob of every
\* prediction predict() returns lies in [0, 1].
C2_ProbabilitiesInUnitInterval ==
    pred # << >> =>
        LET r == pred[1].result
        IN  \A x \in {r.home_win_prob, r.draw_prob, r.away_win_prob} :
                /\ x.n.s >= 0
                /\ ~ZLess(x.d, x.n)

\* C3: a predict() on another thread that reads its four ratings while a
\* fit() call runs on a model that already holds ratings has read either
\* the ratings in force before that call or the ratings in force when the
\* call returns, never a mix of them or a value that is in neither.
C3_ReaderSeesOneSnapshot ==
    [][(/\ FitEnds
        /\ fit_result' = "True"
        /\ frame.pre_attack # EmptyDict
        /\ reads # << >>
        /\ reads[1].fit = nfits
        /\ Len(reads[1].got) = 4)
       => LET h == reads[1].home_team
              a == reads[1].away_team
              old == ReadRatings(frame.pre_attack, frame.pre_defense, h, a)
              new == ReadRatings(team_attack', team_defense', h, a)
              got == [home_attack |-> reads[1].got[1],
                      home_defense |-> reads[1].got[2],
                      away_attack |-> reads[1].got[3],
                      away_defense |-> reads[1].got[4]]
          IN  got = old \/ got = new]_vars

\* C4: when a fit() call returns, the rated teams are exactly the teams of
\* the history passed to that call.
C4_RatedTeamsAreThoseOfLastHistory ==
    [][(FitEnds /\ fit_result' = "True")
       => DOMAIN team_attack' = TeamsIn(frame.matches)]_vars

\* C5: when a fit() call raises, team_attack and team_defense are exactly
\* what they were when the call was made.
C5_AbortLeavesRatings ==
    [][(\/ nfits' = nfits + 1 /\ fit_result' # "running"
        \/ FitEnds /\ fit_result' # "True")
       => /\ team_attack' = IF frame.pc = "idle" THEN team_attack
                            ELSE frame.pre_attack
          /\ team_defense' = IF frame.pc = "idle" THEN team_defense
                             ELSE frame.pre_defense]_vars

\* C5 witness: a fit() call has raised ZeroDivisionError on a model that held
\* ratings, after adding that call's teams to self.teams.
C5_Witness ==
    /\ frame.pc = "idle"
    /\ fit_result = "ZeroDivisionError"
    /\ team_attack # EmptyDict
    /\ teams # DOMAIN team_attack

\* C6: a fit() call on a history with fewer than MIN_MATCHES matches writes
\* no rating and ends by raising DataInsufficientError.
C6_ShortHistoryRaises ==
    [][(frame.pc # "idle" /\ Len(frame.matches) < MIN_MATCHES)
       => /\ team_attack' = team_attack
          /\ team_defense' = team_defense
          /\ (frame'.pc = "idle" => fit_result' = "DataInsufficientError")]_vars

\* C7: predict() raises ModelDegenerateError whenever the three bucket sums
\* total zero, so no prediction is returned from buckets whose total is zero.
C7_DegenerateTotalRaises ==
    pred # << >> => pred[1].total.s # 0

\* C8: a predict() call naming a team never seen in training returns a
\* prediction that reports attack = defense = 1.0 for that team and whose
\* expected goals are computed from the reported values.
C8_UnseenTeamDefaults ==
    [][PredictReturns
       => LET c == pred'[1]
              r == c.result
          IN  /\ c.home_team \notin teams
                    => r.home_attack = QOne /\ r.home_defense = QOne
              /\ c.away_team \notin teams
                    => r.away_attack = QOne /\ r.away_defense = QOne
              /\ r.expected_home_goals =
                    QMul(QMul(r.home_attack, QAdd(QOne, home_advantage)),
                         r.away_defense)
              /\ r.expected_away_goals = QMul(r.away_attack, r.home_defense)]_vars

\* C8 witness: on a fitted model, the latest call was a predict() whose home
\* team was never seen in training and whose away team is rated.
C8_Witness ==
    /\ pred # << >>
    /\ stdout = << >>
    /\ frame.pc = "idle"
    /\ pred[1].home_team \notin teams
    /\ pred[1].away_team \in DOMAIN team_attack
    /\ pred[1].result.away_defense # QOne

\* C9: every predict() call that substitutes the 1.0 defaults for an unseen
\* team leaves a fallback event: a printed line, or a change of an attribute
\* of the model that counts it.
C9_FallbackIsObservable ==
    [][(/\ PredictReturns
        /\ \/ pred'[1].home_team \notin teams
           \/ pred'[1].away_team \notin teams)
       => (stdout' # << >> \/ model_state' # model_state)]_vars

\* C10: a predict() call leaves team_attack, team_defense, teams, xi, rho and
\* home_advantage as they were, and a call repeating a team pair against the
\* same ratings returns the result the earlier call returned.
C10_PredictIsPureAndIdempotent ==
    [][PredictReturns
       => /\ UNCHANGED model_state
          /\ (/\ pred # << >>
              /\ pred_fresh
              /\ pred[1].home_team = pred'[1].home_team
              /\ pred[1].away_team = pred'[1].away_team)
                => pred'[1].result = pred[1].result]_vars

\* C10 witness: on a fitted model, the caller holds the answer to a repeated
\* predict() call.
C10_Witness ==
    /\ pred # << >>
    /\ pred_fresh
    /\ pred[1].calls = MaxCalls
    /\ team_attack # EmptyDict

(***************************************************************************)
(* fit() on a newly constructed model, as a function of its arguments      *)
(***************************************************************************)
\* lines 150-184: team_stats and the insertion order of its keys after the
\* first n matches
RECURSIVE LoopStats(_, _, _, _)
LoopStats(base, matches, current_date, n) ==
    IF n = 0 THEN [team_stats |-> EmptyDict, stats_order |-> << >>]
    ELSE LET before == LoopStats(base, matches, current_date, n - 1)
             match == matches[n]
             home_team == match.home_team
             away_team == match.away_team
             weight == time_decay_weight(base, match.match_date, current_date)
             s0 == before.team_stats
             s1 == IF home_team \in DOMAIN s0 THEN s0 ELSE s0 @@ (home_team :> NewStats)
             s2 == IF away_team \in DOMAIN s1 THEN s1 ELSE s1 @@ (away_team :> NewStats)
             o1 == IF home_team \in DOMAIN s0 THEN before.stats_order
                   ELSE Append(before.stats_order, home_team)
             o2 == IF away_team \in DOMAIN s1 THEN o1 ELSE Append(o1, away_team)
             hg == QMul(QInt(match.home_goals), weight)
             ag == QMul(QInt(match.away_goals), weight)
             s3 == [s2 EXCEPT ![home_team] =
                       [goals_scored |-> QAdd(@.goals_scored, hg),
                        goals_conceded |-> QAdd(@.goals_conceded, ag),
                        weighted_matches |-> QAdd(@.weighted_matches, weight)]]
             s4 == [s3 EXCEPT ![away_team] =
                       [goals_scored |-> QAdd(@.goals_scored, ag),
                        goals_conceded |-> QAdd(@.goals_conceded, hg),
                        weighted_matches |-> QAdd(@.weighted_matches, weight)]]
         IN  [team_stats |-> s4, stats_order |-> o2]

\* lines 195-204 on empty self.team_attack and self.team_defense: the dicts
\* and the order of their keys after the first n teams of team_stats
RECURSIVE ParamsLoop(_, _, _, _)
ParamsLoop(team_stats, stats_order, league_avg_goals, n) ==
    IF n = 0
    THEN [team_attack |-> EmptyDict, team_defense |-> EmptyDict, key_order |-> << >>]
    ELSE LET before == ParamsLoop(team_stats, stats_order, league_avg_goals, n - 1)
             team == stats_order[n]
             stats == team_stats[team]
         IN  IF ~QLess(QZero, stats.weighted_matches) THEN before
             ELSE LET avg_scored == QDiv(stats.goals_scored, stats.weighted_matches)
                      avg_conceded == QDiv(stats.goals_conceded, stats.weighted_matches)
                  IN  [team_attack |->
                           Put(before.team_attack, team,
                               QDiv(avg_scored, league_avg_goals)),
                       team_defense |->
                           Put(before.team_defense, team,
                               QDiv(avg_conceded, league_avg_goals)),
                       key_order |-> Append(before.key_order, team)]

\* lines 208-210: the dicts after the first n keys are divided by avg_attack
RECURSIVE NormalizeLoop(_, _, _)
NormalizeLoop(ratings, avg_attack, n) ==
    IF n = 0 THEN ratings
    ELSE LET before == NormalizeLoop(ratings, avg_attack, n - 1)
             team == ratings.key_order[n]
         IN  [before EXCEPT
                 !.team_attack = Put(@, team, QDiv(@[team], avg_attack)),
                 !.team_defense = Put(@, team, QDiv(@[team], avg_attack))]

\* lines 145-213 on empty self.team_attack and self.team_defense, for a call
\* that returns True: the two dicts it leaves and the order of their keys
FitOnNewModel(base, matches, current_date) ==
    LET date == IF current_date = << >> THEN MaxDate(matches) ELSE current_date[1]
        loop == LoopStats(base, matches, date, Len(matches))
        stats == loop.team_stats
        order == loop.stats_order
        total_weighted_goals ==
            Sum([k \in 1..Len(order) |-> stats[order[k]].goals_scored])
        total_weighted_matches ==
            Sum([k \in 1..Len(order) |-> stats[order[k]].weighted_matches])
        league_avg_goals ==
            IF QLess(QZero, total_weighted_matches)
            THEN QDiv(total_weighted_goals, total_weighted_matches)
            ELSE Q(3, 2)
        raw == ParamsLoop(stats, order, league_avg_goals, Len(order))
        keys == raw.key_order
        avg_attack == IF keys # << >>
                      THEN QDiv(Sum([k \in 1..Len(keys) |-> raw.team_attack[keys[k]]]),
                                QInt(Len(keys)))
                      ELSE QOne
    IN  NormalizeLoop(raw, avg_attack, Len(keys))

\* C11: a fit() call that returns leaves the ratings that a fit() call with
\* the same match list and the same reference date leaves on a newly
\* constructed model: the same rated teams, the same attack and defense.
C11_FitIsDeterministic ==
    [][(FitEnds /\ fit_result' = "True")
       => LET first == FitOnNewModel(xi_base, frame.matches, <<frame.current_date>>)
          IN  /\ team_attack' = first.team_attack
              /\ team_defense' = first.team_defense]_vars

Constructed ==
    /\ team_attack = EmptyDict
    /\ team_defense = EmptyDict
    /\ key_order = << >>
    /\ teams = {}
    /\ frame = IdleFrame
    /\ fit_result = "none"
    /\ stdout = << >>
    /\ pred = << >>
    /\ pred_fresh = FALSE
    /\ reads = << >>
    /\ nfits = 0

\* main() is not running: no table, no loop over test matches
NoMain ==
    /\ db = << >>
    /\ calib = << >>

TAU_LAMBDAS == {Q(1, 2), Q(3, 2), Q(10, 1)}
TAU_MUS == {Q(1, 4), Q(1, 1), Q(9, 1)}
TAU_RHOS == {Q(-13, 100), QZero, Q(1, 2)}

InitTau ==
    /\ xi_base \in XI_BASES
    /\ home_advantage \in HOME_ADVANTAGES
    /\ rho \in TAU_RHOS
    /\ Constructed
    /\ etl = << >>
    /\ NoMain
    /\ \E home_goals \in 0..MAX_GOALS, away_goals \in 0..MAX_GOALS,
          lambda_h \in TAU_LAMBDAS, mu_a \in TAU_MUS :
           call = [fn |-> "tau_correction", home_goals |-> home_goals,
                   away_goals |-> away_goals, lambda_h |-> lambda_h,
                   mu_a |-> mu_a, returned |-> << >>]

\* lines 119-133: the call returns
TauCorrectionCall ==
    /\ call # << >>
    /\ call.fn = "tau_correction"
    /\ call.returned = << >>
    /\ call' = [call EXCEPT !.returned =
                   <<[n |-> tau_correction(call.home_goals, call.away_goals,
                                           call.lambda_h, call.mu_a, rho),
                      d |-> TauDen(call.lambda_h, call.mu_a, rho)]>>]
    /\ UNCHANGED <<model_state, frame, fit_result, stdout, pred, pred_fresh,
                   reads, nfits, db, calib, etl>>

NextTau == TauCorrectionCall

SpecTau == InitTau /\ [][NextTau]_vars

\* the fraction z.n / z.d of two signed big integers equals the rational q
ZEqualsQ(z, q) ==
    LET left == ZMul(z.n, ZFromInt(q.d))
        right == ZMul(ZFromInt(q.n), z.d)
    IN  ~ZLess(left, right) /\ ~ZLess(right, left)

\* C13: tau_correction(i, j, lambda, mu) returns 1 - lambda*mu*rho for (0,0),
\* 1 + lambda*rho for (0,1), 1 + mu*rho for (1,0), 1 - rho for (1,1), and 1
\* for every other scoreline of the grid.
C13_TauTable ==
    (call # << >> /\ call.fn = "tau_correction" /\ call.returned # << >>)
    => LET i == call.home_goals
           j == call.away_goals
           lambda == call.lambda_h
           mu == call.mu_a
           minus(x) == QMul(QInt(-1), x)
           table == IF <<i, j>> = <<0, 0>>
                      THEN QAdd(QOne, minus(QMul(QMul(lambda, mu), rho)))
                    ELSE IF <<i, j>> = <<0, 1>>
                      THEN QAdd(QOne, QMul(lambda, rho))
                    ELSE IF <<i, j>> = <<1, 0>>
                      THEN QAdd(QOne, QMul(mu, rho))
                    ELSE IF <<i, j>> = <<1, 1>>
                      THEN QAdd(QOne, minus(rho))
                    ELSE QOne
       IN  ZEqualsQ(call.returned[1], table)

\* tau_correction(0, 1, lambda, mu) has returned for lambda # mu and rho # 0
C13_Witness ==
    /\ call # << >>
    /\ call.fn = "tau_correction"
    /\ call.returned # << >>
    /\ <<call.home_goals, call.away_goals>> = <<0, 1>>
    /\ call.lambda_h # call.mu_a
    /\ rho # QZero

(***************************************************************************)
(* fit() and predict() on a model constructed with rho = 0                 *)
(***************************************************************************)
InitRhoZero ==
    /\ xi_base \in XI_BASES
    /\ home_advantage \in HOME_ADVANTAGES
    /\ rho = QZero
    /\ Constructed
    /\ etl = << >>
    /\ NoMain
    /\ call = << >>

\* fit(matches) with the default reference date, and predict()
NextRhoZero ==
    \/ \E matches \in Histories : FitBegin(matches, << >>)
    \/ FitMatch
    \/ FitLeagueAverage
    \/ FitTeam
    \/ FitMeanAttack
    \/ FitNormalize
    \/ FitReturn
    \/ \E p \in Pairs : PredictCall(p[1], p[2])

SpecRhoZero == InitRhoZero /\ [][NextRhoZero]_vars

\* The independent bivariate Poisson outcome probabilities on the grid
\* 0..MAX_GOALS: the sums of P(i; lambda_h) * P(j; mu_a) over i > j, i = j and
\* i < j, each divided by their total when the total is positive.
IndependentPoisson(lambda_h, mu_a) ==
    LET exp_zero == MathExpIsZero(lambda_h) \/ MathExpIsZero(mu_a)
        prob == [i \in 0..MAX_GOALS |-> [j \in 0..MAX_GOALS |->
                   IF exp_zero THEN ZZero
                   ELSE ZMul(PoissonNum(lambda_h, i), PoissonNum(mu_a, j))]]
        sums == OuterLoop(prob, MAX_GOALS + 1)
        total == ZAdd(ZAdd(sums.home, sums.draw), sums.away)
        by == IF total.s > 0 THEN total ELSE ZOne
    IN  [home_win |-> [n |-> sums.home, d |-> by],
         draw |-> [n |-> sums.draw, d |-> by],
         away_win |-> [n |-> sums.away, d |-> by]]

\* two fractions of signed big integers with positive denominators are equal
SameFraction(x, y) ==
    LET left == ZMul(x.n, y.d)
        right == ZMul(y.n, x.d)
    IN  ~ZLess(left, right) /\ ~ZLess(right, left)

\* C14: on a model with rho = 0, the three probabilities predict() returns
\* are the renormalized independent bivariate Poisson probabilities of its
\* expected goals over the grid 0..MAX_GOALS.
C14_RhoZeroIsIndependentPoisson ==
    [][(PredictReturns /\ rho = QZero)
       => LET result == pred'[1].result
              independent == IndependentPoisson(result.expected_home_goals,
                                                result.expected_away_goals)
          IN  /\ SameFraction(result.home_win_prob, independent.home_win)
              /\ SameFraction(result.draw_prob, independent.draw)
              /\ SameFraction(result.away_win_prob, independent.away_win)]_vars

\* predict() has returned, on a model with rho = 0, normalized probabilities
\* for expected goals whose product is not 0, so that the correction of the
\* scoreline (0,0) has a term in rho
C14_Witness ==
    /\ pred # << >>
    /\ rho = QZero
    /\ pred[1].total.s > 0
    /\ pred[1].result.expected_home_goals # QZero
    /\ pred[1].result.expected_away_goals # QZero

(***************************************************************************)
(* fit() on a model constructed with xi = 0, and SimpleDixonColes.fit()    *)
(***************************************************************************)
InitXiZero ==
    /\ xi_base = 1
    /\ home_advantage \in HOME_ADVANTAGES
    /\ rho \in RHOS
    /\ Constructed
    /\ etl = << >>
    /\ NoMain
    /\ call = << >>

NextXiZero == Fit

SpecXiZero == InitXiZero /\ [][NextXiZero]_vars

\* SimpleDixonColes.fit, lines 100-117: team_stats and the order of its keys
\* after the first n matches
RECURSIVE SimpleLoop(_, _)
SimpleLoop(matches, n) ==
    IF n = 0 THEN [team_stats |-> EmptyDict, stats_order |-> << >>]
    ELSE LET before == SimpleLoop(matches, n - 1)
             match == matches[n]
             home_team == match.home_team
             away_team == match.away_team
             new == [goals_scored |-> 0, goals_conceded |-> 0, matches |-> 0]
             s0 == before.team_stats
             s1 == IF home_team \in DOMAIN s0 THEN s0 ELSE s0 @@ (home_team :> new)
             s2 == [s1 EXCEPT ![home_team] =
                       [goals_scored |-> @.goals_scored + match.home_goals,
                        goals_conceded |-> @.goals_conceded + match.away_goals,
                        matches |-> @.matches + 1]]
             s3 == IF away_team \in DOMAIN s2 THEN s2 ELSE s2 @@ (away_team :> new)
             s4 == [s3 EXCEPT ![away_team] =
                       [goals_scored |-> @.goals_scored + match.away_goals,
                        goals_conceded |-> @.goals_conceded + match.home_goals,
                        matches |-> @.matches + 1]]
             o1 == IF home_team \in DOMAIN s0 THEN before.stats_order
                   ELSE Append(before.stats_order, home_team)
             o2 == IF away_team \in DOMAIN s2 THEN o1 ELSE Append(o1, away_team)
         IN  [team_stats |-> s4, stats_order |-> o2]

RECURSIVE SumInt(_)
SumInt(values) == IF values = << >> THEN 0 ELSE Head(values) + SumInt(Tail(values))

\* SimpleDixonColes.fit, lines 96-135, on a new SimpleDixonColes, for a call
\* that returns True: the two dicts it leaves
SimpleFit(matches) ==
    LET loop == SimpleLoop(matches, Len(matches))
        stats == loop.team_stats
        order == loop.stats_order
        total_goals == SumInt([k \in 1..Len(order) |-> stats[order[k]].goals_scored])
        total_matches == SumInt([k \in 1..Len(order) |-> stats[order[k]].matches])
        league_avg == IF total_matches > 0 THEN Q(total_goals, total_matches)
                      ELSE Q(3, 2)
        rated == {t \in DOMAIN stats : stats[t].matches > 0}
    IN  [team_attack |->
             [t \in rated |->
                 QDiv(Q(stats[t].goals_scored, stats[t].matches), league_avg)],
         team_defense |->
             [t \in rated |->
                 QDiv(Q(stats[t].goals_conceded, stats[t].matches), league_avg)]]

\* C15: on a model with xi = 0, a fit() call that returns True leaves the
\* ratings of the unweighted-average computation on the same matches: each
\* team's goals scored and conceded per match played, divided by the league
\* average.
C15_XiZeroIsUnweightedAverage ==
    [][(FitEnds /\ fit_result' = "True" /\ xi_base = 1)
       => LET unweighted == SimpleFit(frame.matches)
          IN  /\ team_attack' = unweighted.team_attack
              /\ team_defense' = unweighted.team_defense]_vars

(***************************************************************************)
(* predict() on the same ratings under two home advantages                 *)
(***************************************************************************)
\* ratings read by predict(): 1 is the default of a team without rating, the
\* others are the ratings of C and A after fit() on fixtures 1, 2 and 3
HOME_ATTACKS == {QOne, Q(20, 7)}
HOME_DEFENSES == {QOne, Q(10, 63)}
AWAY_ATTACKS == {QOne, Q(1, 7)}
AWAY_DEFENSES == {QOne, Q(18, 7)}

\* self.home_advantage of the two models
ADVANTAGES == {QZero, Q(3, 10), Q(1, 2), QOne}

InitAdvantage ==
    /\ xi_base \in XI_BASES
    /\ home_advantage \in HOME_ADVANTAGES
    /\ rho \in RHOS
    /\ Constructed
    /\ etl = << >>
    /\ NoMain
    /\ \E home_attack \in HOME_ATTACKS, home_defense \in HOME_DEFENSES,
          away_attack \in AWAY_ATTACKS, away_defense \in AWAY_DEFENSES,
          smaller \in ADVANTAGES, larger \in ADVANTAGES :
           /\ QLess(smaller, larger)
           /\ call = [fn |-> "predict",
                      ratings |-> [home_attack |-> home_attack,
                                   home_defense |-> home_defense,
                                   away_attack |-> away_attack,
                                   away_defense |-> away_defense],
                      smaller |-> smaller, larger |-> larger,
                      returned |-> << >>]

\* lines 228-277 on the two models: both calls return
PredictUnderBoth ==
    /\ call # << >>
    /\ call.fn = "predict"
    /\ call.returned = << >>
    /\ call' = [call EXCEPT !.returned =
                   <<PredictFrom(call.ratings, call.smaller, rho, xi_base).returned,
                     PredictFrom(call.ratings, call.larger, rho, xi_base).returned>>]
    /\ UNCHANGED <<model_state, frame, fit_result, stdout, pred, pred_fresh,
                   reads, nfits, db, calib, etl>>

NextAdvantage == PredictUnderBoth

SpecAdvantage == InitAdvantage /\ [][NextAdvantage]_vars

\* x < y for two fractions of signed big integers with positive denominators
FractionLess(x, y) == ZLess(ZMul(x.n, y.d), ZMul(y.n, x.d))

\* C16: for the same ratings with positive expected goals and the same rho,
\* predict() under the larger home advantage returns a strictly larger
\* home_win_prob and a smaller away_win_prob than under the smaller one.
C16_HomeAdvantageIsMonotone ==
    (/\ call # << >>
     /\ call.fn = "predict"
     /\ call.returned # << >>
     /\ QLess(QZero, call.returned[1].expected_home_goals)
     /\ QLess(QZero, call.returned[1].expected_away_goals))
    => /\ FractionLess(call.returned[1].home_win_prob,
                       call.returned[2].home_win_prob)
       /\ FractionLess(call.returned[2].away_win_prob,
                       call.returned[1].away_win_prob)

(***************************************************************************)
(* Storing the predictions: features.match_features (store_predictions and *)
(* the commit of main) and features.match_features_simple (the loop of the *)
(* simple program's main), on a psycopg2 connection with autocommit off    *)
(***************************************************************************)
MaxStores == 2

\* fixture_id of the test matches
FIXTURE_IDS == 1..3

\* what a float becomes in a DECIMAL(precision, scale) column: << >> when
\* the rounded value does not fit (numeric field overflow), else the value
\* in units of 10^(-scale)
ToDecimal(q, precision, scale) ==
    LET t == Abs(q.n) * Pow(10, scale)
        quotient == t \div q.d
        remainder == t % q.d
        rounded == IF 2 * remainder >= q.d THEN quotient + 1 ELSE quotient
    IN  IF rounded >= Pow(10, precision) THEN << >>
        ELSE <<IF q.n < 0 THEN -rounded ELSE rounded>>

\* home_win_prob and expected_home_goals of a prediction: two ordinary
\* predictions, and the prediction of lambda_h = 760.5
StoredValue(name) ==
    IF name = "low" THEN [home_win_prob |-> Q(1, 3), expected_home_goals |-> Q(3, 2)]
    ELSE IF name = "high" THEN [home_win_prob |-> Q(2, 3), expected_home_goals |-> Q(468, 49)]
    ELSE [home_win_prob |-> QZero, expected_home_goals |-> Q(1521, 2)]

\* the predictions list: the fixtures k, k+1, ... that have a prediction
RECURSIVE BatchOf(_, _)
BatchOf(f, k) ==
    IF k \notin FIXTURE_IDS THEN << >>
    ELSE (IF f[k] = "none" THEN << >>
          ELSE <<[fixture_id |-> k,
                  home_win_prob |-> StoredValue(f[k]).home_win_prob,
                  expected_home_goals |-> StoredValue(f[k]).expected_home_goals]>>)
         \o BatchOf(f, k + 1)

Batches == {BatchOf(f, 1) : f \in [FIXTURE_IDS -> {"none", "low", "high", "overflow"}]}

\* the INSERT without its ON CONFLICT clause, on a table without the primary
\* key: the row is always added
InsertOnly(rows, row) == Append(rows, row)

\* INSERT ... ON CONFLICT (fixture_id) DO UPDATE SET ...: the row of the same
\* fixture_id takes the new values, or the row is added
Upsert(rows, row) ==
    IF \E k \in 1..Len(rows) : rows[k].fixture_id = row.fixture_id
    THEN [k \in 1..Len(rows) |->
             IF rows[k].fixture_id = row.fixture_id THEN row ELSE rows[k]]
    ELSE Append(rows, row)

InitStore ==
    /\ xi_base \in XI_BASES
    /\ home_advantage \in HOME_ADVANTAGES
    /\ rho \in RHOS
    /\ Constructed
    /\ etl = << >>
    /\ call = << >>
    /\ calib = << >>
    /\ \E variant \in {"full", "simple"} :
           db = [variant |-> variant,      \* which program runs
                 table |-> << >>,          \* the committed rows
                 work |-> << >>,           \* the rows the open transaction sees
                 failed |-> FALSE,         \* the transaction is aborted
                 pc |-> "idle",
                 predictions |-> << >>,
                 i |-> 0,
                 stored_count |-> 0,
                 warnings |-> << >>,       \* fixture_id of each warning printed
                 written |-> << >>,        \* rows whose execute() returned
                 previous |-> << >>,       \* <<batch>> of the call before
                 repeat |-> FALSE,         \* this batch is the one before
                 stores |-> 0]

\* store_predictions line 306, simple main line 280: the loop starts
StoreBegin(predictions) ==
    /\ db.pc = "idle"
    /\ db.stores < MaxStores
    /\ db' = [db EXCEPT !.pc = "loop", !.predictions = predictions, !.i = 1,
                        !.stored_count = 0, !.warnings = << >>,
                        !.written = << >>,
                        !.repeat = (db.previous = <<predictions>>),
                        !.stores = @ + 1]
    /\ UNCHANGED <<model_state, frame, fit_result, stdout, pred, pred_fresh,
                   reads, nfits, call, calib, etl>>

\* store_predictions lines 307-347, simple main lines 282-313: one iteration.
\* execute() raises when the transaction is aborted or a value does not fit
\* its column, and a statement that raises aborts the transaction; the
\* simple program then calls conn.rollback().
StoreExecute ==
    /\ db.pc = "loop"
    /\ db.i <= Len(db.predictions)
    /\ LET p == db.predictions[db.i]
           prob == ToDecimal(p.home_win_prob, 5, 4)
           goals == ToDecimal(p.expected_home_goals, 8, 6)
           raises == db.failed \/ prob = << >> \/ goals = << >>
       IN  IF ~raises
           THEN LET row == [fixture_id |-> p.fixture_id,
                            home_win_prob |-> prob[1],
                            expected_home_goals |-> goals[1],
                            calculated_at |-> db.stores]
                IN  db' = [db EXCEPT !.work = Upsert(@, row),
                                     !.stored_count = @ + 1,
                                     !.written = Append(@, row),
                                     !.i = @ + 1]
           ELSE IF db.variant = "simple"
           THEN db' = [db EXCEPT !.warnings = Append(@, p.fixture_id),
                                 !.work = db.table,
                                 !.failed = FALSE,
                                 !.i = @ + 1]
           ELSE db' = [db EXCEPT !.warnings = Append(@, p.fixture_id),
                                 !.failed = TRUE,
                                 !.i = @ + 1]
    /\ UNCHANGED <<model_state, frame, fit_result, stdout, pred, pred_fresh,
                   reads, nfits, call, calib, etl>>

\* main line 432, simple main line 315: conn.commit(); the server ends an
\* aborted transaction by rolling it back
StoreCommit ==
    /\ db.pc = "loop"
    /\ db.i > Len(db.predictions)
    /\ LET table == IF db.failed THEN db.table ELSE db.work
       IN  db' = [db EXCEPT !.table = table, !.work = table, !.failed = FALSE,
                            !.pc = "idle", !.previous = <<db.predictions>>]
    /\ UNCHANGED <<model_state, frame, fit_result, stdout, pred, pred_fresh,
                   reads, nfits, call, calib, etl>>

NextStore ==
    \/ \E predictions \in Batches : StoreBegin(predictions)
    \/ StoreExecute
    \/ StoreCommit

SpecStore == InitStore /\ [][NextStore]_vars

\* a step in which the batch is committed
StoreEnds == db.pc = "loop" /\ db'.pc = "idle"

UniqueKeys(rows) ==
    \A j, k \in 1..Len(rows) : rows[j].fixture_id = rows[k].fixture_id => j = k

\* the prediction values of the rows, without calculated_at
PredictionValues(rows) ==
    {[fixture_id |-> rows[k].fixture_id,
      home_win_prob |-> rows[k].home_win_prob,
      expected_home_goals |-> rows[k].expected_home_goals] : k \in 1..Len(rows)}

\* C17: after every step of every store the table holds at most one row
\* per fixture_id, in the committed rows and in the open transaction, and a
\* store of the same batch as the store before leaves the prediction values
\* that the store before left.
C17_StoreIsIdempotentUpsert ==
    [][/\ UniqueKeys(db'.table)
       /\ UniqueKeys(db'.work)
       /\ (StoreEnds /\ db.repeat)
          => PredictionValues(db'.table) = PredictionValues(db.table)]_vars

\* the same batch of two predictions has been stored and committed twice,
\* and the second store has rewritten the rows of the first
C17_Witness ==
    /\ db.pc = "idle"
    /\ db.repeat
    /\ Len(db.table) >= 2
    /\ \A k \in 1..Len(db.table) : db.table[k].calculated_at = 2

\* the rows as a set
RowsOf(rows) == {rows[k] : k \in 1..Len(rows)}

\* C18: when the execute() of some prediction of a batch has raised, the
\* loop has still gone through every prediction of the batch (each one is
\* counted as stored or warned about), and once the batch is committed every
\* row whose execute() returned is in the table.
C18_PartialFailureKeepsWrittenRows ==
    [][(StoreEnds /\ db.warnings # << >>)
       => /\ db.stored_count + Len(db.warnings) = Len(db.predictions)
          /\ RowsOf(db.written) \subseteq RowsOf(db'.table)]_vars

(***************************************************************************)
(* calculate_brier_score() called on its own                               *)
(***************************************************************************)
\* lines 298-299: sum of the squared errors, divided by 3.0
MeanSquaredError(predicted, actual) ==
    LET squared_errors ==
            [k \in 1..3 |->
                LET e == QAdd(predicted[k], QMul(QInt(-1), QInt(actual[k])))
                IN  QMul(e, e)]
    IN  QDiv(Sum(squared_errors), QInt(3))

\* lines 290-299 with the one-hot tuples of 'D' and 'A' exchanged
CalculateBrierScoreExchanged(predicted, actual_result) ==
    IF actual_result = "H"
    THEN [raised |-> "", returned |-> <<MeanSquaredError(predicted, <<1, 0, 0>>)>>]
    ELSE IF actual_result = "D"
    THEN [raised |-> "", returned |-> <<MeanSquaredError(predicted, <<0, 0, 1>>)>>]
    ELSE IF actual_result = "A"
    THEN [raised |-> "", returned |-> <<MeanSquaredError(predicted, <<0, 1, 0>>)>>]
    ELSE [raised |-> "ValueError", returned |-> << >>]

\* calculate_brier_score(predicted, actual_result), lines 279-300: what it
\* returns, or the exception it raises
calculate_brier_score(predicted, actual_result) ==
    IF actual_result = "H"
    THEN [raised |-> "", returned |-> <<MeanSquaredError(predicted, <<1, 0, 0>>)>>]
    ELSE IF actual_result = "D"
    THEN [raised |-> "", returned |-> <<MeanSquaredError(predicted, <<0, 1, 0>>)>>]
    ELSE IF actual_result = "A"
    THEN [raised |-> "", returned |-> <<MeanSquaredError(predicted, <<0, 0, 1>>)>>]
    ELSE [raised |-> "ValueError", returned |-> << >>]

\* the probabilities of the predicted tuples
BRIER_PROBABILITIES == {QZero, Q(1, 3), Q(1, 2), QOne}

\* actual_result: the three outcomes, and a value that is none of them
ACTUAL_RESULTS == {"H", "D", "A", "X"}

InitBrier ==
    /\ xi_base \in XI_BASES
    /\ home_advantage \in HOME_ADVANTAGES
    /\ rho \in RHOS
    /\ Constructed
    /\ etl = << >>
    /\ NoMain
    /\ \E home \in BRIER_PROBABILITIES, draw \in BRIER_PROBABILITIES,
          away \in BRIER_PROBABILITIES, actual_result \in ACTUAL_RESULTS :
           call = [fn |-> "calculate_brier_score",
                   predicted |-> <<home, draw, away>>,
                   actual_result |-> actual_result,
                   raised |-> "", returned |-> << >>]

\* lines 279-300: the call returns or raises
BrierCall ==
    /\ call # << >>
    /\ call.fn = "calculate_brier_score"
    /\ call.raised = ""
    /\ call.returned = << >>
    /\ LET outcome == calculate_brier_score(call.predicted, call.actual_result)
       IN  call' = [call EXCEPT !.raised = outcome.raised,
                                !.returned = outcome.returned]
    /\ UNCHANGED <<model_state, frame, fit_result, stdout, pred, pred_fresh,
                   reads, nfits, db, calib, etl>>

NextBrier == BrierCall

SpecBrier == InitBrier /\ [][NextBrier]_vars

\* C19: calculate_brier_score returns one third of the sum over the three
\* classes of (predicted - actual)^2 against the one-hot outcome; that is 0
\* when the class that happened was given probability 1 and the others 0,
\* and 2/9 for (1/3, 1/3, 1/3) on each of 'H', 'D' and 'A'.
C19_BrierScore ==
    (call # << >> /\ call.fn = "calculate_brier_score" /\ call.returned # << >>)
    => LET which == IF call.actual_result = "H" THEN 1
                    ELSE IF call.actual_result = "D" THEN 2 ELSE 3
           p == call.predicted
           error(k) == IF k = which
                       THEN QAdd(p[k], QInt(-1))
                       ELSE p[k]
           third == Q(1, 3)
           score == QMul(third,
                         QAdd(QAdd(QMul(error(1), error(1)),
                                   QMul(error(2), error(2))),
                              QMul(error(3), error(3))))
           perfect == [k \in 1..3 |-> IF k = which THEN QOne ELSE QZero]
       IN  /\ call.returned[1] = score
           /\ p = perfect => call.returned[1] = QZero
           /\ p = <<third, third, third>> => call.returned[1] = Q(2, 9)

\* calculate_brier_score((1/3, 1/3, 1/3), 'D') has returned
C19_Witness ==
    /\ call # << >>
    /\ call.fn = "calculate_brier_score"
    /\ call.returned # << >>
    /\ call.actual_result = "D"
    /\ call.predicted = <<Q(1, 3), Q(1, 3), Q(1, 3)>>

(***************************************************************************)
(* main(): the loop over the test matches and the statistics               *)
(***************************************************************************)
\* the largest power of ten below the largest double (about 1.8e308)
FLOAT_MAX_10_EXP == 308

\* the kinds of test match: a home win, a draw, an away win, each with the
\* tuple predict() returns for it, and a match of two teams whose expected
\* goals are about 1e54 (a team that conceded only in a match 52 years
\* before the reference date)
TestMatchOf(k, kind) ==
    IF kind = "H"
    THEN [fixture_id |-> k, home_goals |-> 2, away_goals |-> 0, exponent |-> 0,
          predicted |-> <<Q(1, 2), Q(1, 3), Q(1, 6)>>]
    ELSE IF kind = "D"
    THEN [fixture_id |-> k, home_goals |-> 1, away_goals |-> 1, exponent |-> 0,
          predicted |-> <<Q(1, 3), Q(1, 3), Q(1, 3)>>]
    ELSE IF kind = "A"
    THEN [fixture_id |-> k, home_goals |-> 0, away_goals |-> 1, exponent |-> 0,
          predicted |-> <<Q(1, 2), Q(1, 2), QZero>>]
    ELSE [fixture_id |-> k, home_goals |-> 1, away_goals |-> 0, exponent |-> 54,
          predicted |-> << >>]

RECURSIVE TestMatchesOf(_, _)
TestMatchesOf(f, k) ==
    IF k \notin FIXTURE_IDS THEN << >>
    ELSE (IF f[k] = "none" THEN << >> ELSE <<TestMatchOf(k, f[k])>>)
         \o TestMatchesOf(f, k + 1)

TestPartitions ==
    {TestMatchesOf(f, 1) : f \in [FIXTURE_IDS -> {"none", "H", "D", "A", "huge"}]}

\* predict(), line 244: lambda_h ** i raises OverflowError for some i of the
\* grid when lambda_h is about 10^exponent
PredictOverflows(exponent) == exponent * MAX_GOALS > FLOAT_MAX_10_EXP

RECURSIVE QMin(_)
QMin(values) ==
    IF Len(values) = 1 THEN values[1]
    ELSE LET m == QMin(Tail(values))
         IN  IF QLess(values[1], m) THEN values[1] ELSE m

RECURSIVE QMax(_)
QMax(values) ==
    IF Len(values) = 1 THEN values[1]
    ELSE LET m == QMax(Tail(values))
         IN  IF QLess(m, values[1]) THEN values[1] ELSE m

InitCalib ==
    /\ xi_base \in XI_BASES
    /\ home_advantage \in HOME_ADVANTAGES
    /\ rho \in RHOS
    /\ Constructed
    /\ etl = << >>
    /\ call = << >>
    /\ db = << >>
    /\ calib = [pc |-> "idle", test_matches |-> << >>, i |-> 0,
                predictions |-> << >>, brier_scores |-> << >>,
                raised |-> "", avg_brier |-> QZero, min_brier |-> QZero,
                max_brier |-> QZero]

\* main lines 374-379: the loop over test_matches starts
CalibBegin(test_matches) ==
    /\ calib.pc = "idle"
    /\ calib' = [calib EXCEPT !.pc = "loop", !.test_matches = test_matches,
                              !.i = 1]
    /\ UNCHANGED <<model_state, frame, fit_result, stdout, pred, pred_fresh,
                   reads, nfits, call, db, etl>>

\* main lines 379-401: one iteration.  An exception of predict() is caught
\* nowhere in the loop: it leaves main() through the finally clause of lines
\* 463-466.
CalibMatch ==
    /\ calib.pc = "loop"
    /\ calib.i <= Len(calib.test_matches)
    /\ LET match == calib.test_matches[calib.i]
           actual_result == IF match.home_goals > match.away_goals THEN "H"
                            ELSE IF match.home_goals < match.away_goals THEN "A"
                            ELSE "D"
       IN  IF PredictOverflows(match.exponent)
           THEN calib' = [calib EXCEPT !.pc = "aborted",
                                       !.raised = "OverflowError"]
           ELSE LET brier == calculate_brier_score(match.predicted, actual_result)
                IN  IF brier.raised # ""
                    THEN calib' = [calib EXCEPT !.pc = "aborted",
                                                !.raised = brier.raised]
                    ELSE calib' =
                             [calib EXCEPT
                                 !.brier_scores = Append(@, brier.returned[1]),
                                 !.predictions = Append(@, match.fixture_id),
                                 !.i = @ + 1]
    /\ UNCHANGED <<model_state, frame, fit_result, stdout, pred, pred_fresh,
                   reads, nfits, call, db, etl>>

\* main lines 412-414: mean, minimum and maximum of brier_scores, 0 when the
\* list is empty
CalibStatistics ==
    /\ calib.pc = "loop"
    /\ calib.i > Len(calib.test_matches)
    /\ LET scores == calib.brier_scores
       IN  calib' =
               [calib EXCEPT
                   !.pc = "done",
                   !.avg_brier = IF scores # << >>
                                 THEN QDiv(Sum(scores), QInt(Len(scores)))
                                 ELSE QZero,
                   !.min_brier = IF scores # << >> THEN QMin(scores) ELSE QZero,
                   !.max_brier = IF scores # << >> THEN QMax(scores) ELSE QZero]
    /\ UNCHANGED <<model_state, frame, fit_result, stdout, pred, pred_fresh,
                   reads, nfits, call, db, etl>>

NextCalib ==
    \/ \E test_matches \in TestPartitions : CalibBegin(test_matches)
    \/ CalibMatch
    \/ CalibStatistics

SpecCalib == InitCalib /\ [][NextCalib]_vars

SCENARIO_MATCHES == 100

\* the history, all matches on day 1
ScenarioOneDay ==
    [k \in 1..SCENARIO_MATCHES |->
        [fixture_id |-> k, home_team |-> "A", away_team |-> "B",
         home_goals |-> 2, away_goals |-> 0, match_date |-> 1]]

\* the history, one match a day
ScenarioDaily ==
    [k \in 1..SCENARIO_MATCHES |->
        [fixture_id |-> k, home_team |-> "A", away_team |-> "B",
         home_goals |-> 2, away_goals |-> 0, match_date |-> k]]

\* the rho the model of the scenario is constructed with
SCENARIO_RHOS == {Q(-13, 100), QZero, Q(13, 100)}

InitScenario ==
    /\ xi_base = 1
    /\ home_advantage = QZero
    /\ rho \in SCENARIO_RHOS
    /\ Constructed
    /\ etl = << >>
    /\ NoMain
    /\ call = << >>

\* fit(history, current_date) with the first or the last day of the
\* history as the reference date, and predict()
NextScenario ==
    \/ \E matches \in {ScenarioOneDay, ScenarioDaily},
          current_date \in {<<1>>, <<SCENARIO_MATCHES>>} :
           FitBegin(matches, current_date)
    \/ FitMatch
    \/ FitLeagueAverage
    \/ FitTeam
    \/ FitMeanAttack
    \/ FitNormalize
    \/ FitReturn
    \/ \E p \in Pairs : PredictCall(p[1], p[2])

SpecScenario == InitScenario /\ [][NextScenario]_vars

\* the caller holds predict('A', 'B') of the model as fitted on the scenario
ScenarioPrediction ==
    /\ pred # << >>
    /\ pred_fresh
    /\ fit_result = "True"
    /\ pred[1].home_team = "A"
    /\ pred[1].away_team = "B"

\* C21: after fit() on the scenario's history with xi = 0 and
\* home_advantage = 0, predict('A', 'B') returns home_win_prob > 0.8 and
\* expected_home_goals = 2 * home_attack * (1 + home_advantage).
C21_OneSidedHistory ==
    ScenarioPrediction
    => LET result == pred[1].result
       IN  /\ ZLess(ZMul(ZFromInt(4), result.home_win_prob.d),
                    ZMul(ZFromInt(5), result.home_win_prob.n))
           /\ result.expected_home_goals
                  = QMul(QInt(2), QMul(result.home_attack,
                                       QAdd(QOne, home_advantage)))

\* predict('A', 'B') has returned after the fit: A's attack is 2, B's defense
\* is 2 and the expected home goals are 4
C21_Witness ==
    /\ ScenarioPrediction
    /\ nfits >= 1
    /\ pred[1].result.home_attack = QInt(2)
    /\ pred[1].result.expected_home_goals = QInt(4)
    /\ pred[1].result.expected_away_goals = QZero

(***************************************************************************)
(* The prediction the caller holds, across later fit() calls               *)
(***************************************************************************)
\* a step of a fit() call
FitStep == nfits' # nfits \/ frame.pc # "idle"

\* C22: the dict predict() returns holds the four ratings it read and the
\* rho and xi of the model at the time of the call, and no step of a later
\* fit() changes a prediction already returned.
C22_PredictionKeepsItsValues ==
    [][/\ PredictReturns
          => LET result == pred'[1].result
                 home_team == pred'[1].home_team
                 away_team == pred'[1].away_team
             IN  /\ result.home_attack = Get(team_attack, home_team, QOne)
                 /\ result.home_defense = Get(team_defense, home_team, QOne)
                 /\ result.away_attack = Get(team_attack, away_team, QOne)
                 /\ result.away_defense = Get(team_defense, away_team, QOne)
                 /\ result.rho = rho
                 /\ result.xi = xi_base
       /\ FitStep => pred' = pred]_vars

\* the caller holds a prediction made after one fit(), a second fit() has
\* returned and rates the home team differently from what the prediction
\* holds
C22_Witness ==
    /\ pred # << >>
    /\ ~pred_fresh
    /\ nfits = 2
    /\ fit_result = "True"
    /\ frame.pc = "idle"
    /\ pred[1].home_team \in DOMAIN team_attack
    /\ pred[1].result.home_attack # QOne
    /\ pred[1].result.home_attack # team_attack[pred[1].home_team]

(***************************************************************************)
(* CSVDownloader (src/etl/downloader.py): download_all and the tenacity    *)
(* retry of download_with_retry                                            *)
(***************************************************************************)
\* the variables the ingestion run leaves alone
engine == <<model_state, frame, fit_result, stdout, pred, pred_fresh, reads,
            nfits, call, db, calib>>

\* stop_after_attempt(3) of the decorator of download_with_retry
STOP_AFTER_ATTEMPT == 3

\* the leagues of the configuration
CONFIGURED_LEAGUES == {"EPL", "LaLiga"}

\* the leagues and seasons arguments of download_all
LEAGUE_LISTS == {<<"EPL">>, <<"EPL", "LaLiga">>, <<"Serie Z", "EPL">>}
SEASON_LISTS == {<<"2023-24">>, <<"2022-23", "2023-24">>}

\* what session.get and raise_for_status do on one attempt
NETWORK_ANSWERS == {"ok", "ConnectionError", "HTTPError"}

\* download_season, lines 35-66, for the network answer of this attempt:
\* every exception is caught and turned into the return value None, so the
\* call returns a path or None and never raises
download_season(league_name, season, answer) ==
    IF league_name \notin CONFIGURED_LEAGUES
    THEN [raised |-> FALSE, returned |-> << >>,
          logged |-> "League not found in config"]
    ELSE IF answer # "ok"
    THEN [raised |-> FALSE, returned |-> << >>, logged |-> "Failed to download"]
    ELSE [raised |-> FALSE, returned |-> <<[league |-> league_name, file |-> season]>>,
          logged |-> "Downloaded"]

\* The retry decorator of line 68, from attempt n on: tenacity calls the
\* function again only when the attempt raised (its default condition,
\* retry_if_exception_type()); a returned value, None included, ends the
\* loop, and a raise on the last attempt is reraised as RetryError.
\* answers[n] is what the network would answer on attempt n.
RECURSIVE Retrying(_, _, _, _)
Retrying(league_name, season, answers, n) ==
    LET attempt == download_season(league_name, season, answers[n])
    IN  IF attempt.raised /\ n < STOP_AFTER_ATTEMPT
        THEN Retrying(league_name, season, answers, n + 1)
        ELSE [attempts |-> n, raised |-> attempt.raised,
              returned |-> attempt.returned, logged |-> attempt.logged]

\* lines 68-71
download_with_retry(league_name, season, answers) ==
    Retrying(league_name, season, answers, 1)

\* the (league, season) pairs in the order of the loops of lines 106-109
RECURSIVE FilesOf(_, _)
FilesOf(leagues, seasons) ==
    IF leagues = << >> THEN << >>
    ELSE [k \in 1..Len(seasons) |-> [league |-> Head(leagues), season |-> seasons[k]]]
             \o FilesOf(Tail(leagues), seasons)

NewDownloadStats ==
    [total_files |-> 0, downloaded_files |-> 0, failed_files |-> 0,
     downloaded_paths |-> << >>]

InitDownload ==
    /\ xi_base \in XI_BASES
    /\ home_advantage \in HOME_ADVANTAGES
    /\ rho \in RHOS
    /\ Constructed
    /\ NoMain
    /\ call = << >>
    /\ etl = [fn |-> "download_all", pc |-> "idle", files |-> << >>, i |-> 0,
              stats |-> NewDownloadStats,
              log |-> << >>]    \* per file: the network answer of the first
                                \* attempt, the download_season calls made,
                                \* whether the file was counted as failed

\* lines 84-103: the call
DownloadAllBegin(leagues, seasons) ==
    /\ etl.fn = "download_all"
    /\ etl.pc = "idle"
    /\ etl.files = << >>
    /\ etl' = [etl EXCEPT !.pc = "loop", !.files = FilesOf(leagues, seasons),
                          !.i = 1, !.stats = NewDownloadStats]
    /\ UNCHANGED engine

\* lines 110-120: one iteration of the inner loop.  A returned path exists:
\* the file was written at lines 58-59.  RetryError is an Exception and ends
\* download_all at lines 125-127.
DownloadFile ==
    /\ etl.fn = "download_all"
    /\ etl.pc = "loop"
    /\ etl.i <= Len(etl.files)
    /\ \E answers \in [1..STOP_AFTER_ATTEMPT -> NETWORK_ANSWERS] :
          LET file == etl.files[etl.i]
              outcome == download_with_retry(file.league, file.season, answers)
              file_path == outcome.returned
              counted == [etl.stats EXCEPT !.total_files = @ + 1]
          IN  IF outcome.raised
              THEN etl' = [etl EXCEPT !.pc = "idle", !.stats = counted]
              ELSE IF file_path # << >>
              THEN etl' = [etl EXCEPT
                      !.stats = [counted EXCEPT
                                    !.downloaded_files = @ + 1,
                                    !.downloaded_paths = Append(@, file_path[1])],
                      !.log = Append(@, [answer |-> answers[1],
                                         attempts |-> outcome.attempts,
                                         failed |-> FALSE]),
                      !.i = @ + 1]
              ELSE etl' = [etl EXCEPT
                      !.stats = [counted EXCEPT !.failed_files = @ + 1],
                      !.log = Append(@, [answer |-> IF outcome.logged = "Failed to download"
                                                    THEN answers[1]
                                                    ELSE outcome.logged,
                                         attempts |-> outcome.attempts,
                                         failed |-> TRUE]),
                      !.i = @ + 1]
    /\ UNCHANGED engine

\* lines 122-123
DownloadAllReturn ==
    /\ etl.fn = "download_all"
    /\ etl.pc = "loop"
    /\ etl.i > Len(etl.files)
    /\ etl' = [etl EXCEPT !.pc = "idle"]
    /\ UNCHANGED engine

NextDownload ==
    \/ \E leagues \in LEAGUE_LISTS, seasons \in SEASON_LISTS :
           DownloadAllBegin(leagues, seasons)
    \/ DownloadFile
    \/ DownloadAllReturn

SpecDownload == InitDownload /\ [][NextDownload]_vars

\* C23: a file whose first download attempt failed with a network or HTTP
\* error was attempted again, and when download_all counted it as failed it
\* had been attempted STOP_AFTER_ATTEMPT times.
C23_FailedAfterThreeAttempts ==
    \A k \in 1..Len(etl.log) :
        etl.log[k].answer \in {"ConnectionError", "HTTPError"}
        => /\ etl.log[k].attempts > 1
           /\ etl.log[k].failed => etl.log[k].attempts = STOP_AFTER_ATTEMPT

(***************************************************************************)
(* MultiSourceOddsCollector (src/pipeline/MultiSourceOddsCollector.py).    *)
(* Odds are in hundredths: 2.10 is 210.  None is << >>.                    *)
(***************************************************************************)
\* the --source choices of main()
ODDS_SOURCES == {"football_data", "mock"}

\* what GET /v4/matches/{id}/odds answers: a body with a 1X2 market of a
\* known bookmaker, a body without one, 404, 429, or no answer at all
PRIMARY_ANSWERS == {"odds", "no market", "404", "429", "Timeout"}

\* _try_football_data, lines 93-127
try_football_data(football_data_key, answer) ==
    IF ~football_data_key THEN << >>
    ELSE IF answer = "odds" THEN <<[home |-> 210, draw |-> 340, away |-> 360]>>
    ELSE << >>

\* the row of features.match_derived for the fixture (home_win_pct_3,
\* away_win_pct_3, home_unbeaten_pct_3): none, or one of these; "raises"
\* is a failing execute()
FEATURE_ROWS == {<<"raises">>, << >>, <<50, 50, 50>>, <<60, 20, 80>>, <<0, 40, 60>>}

\* what random.uniform and round give at lines 210-212
RANDOM_ODDS == {[home |-> 180, draw |-> 300, away |-> 350],
                [home |-> 250, draw |-> 380, away |-> 500]}

\* round(1 / (prob * (1 - margin)), 2) with margin = 0.05, in hundredths
MockPrice(prob) ==
    LET price == QDiv(QInt(2000), QMul(QInt(19), prob))
    IN  (2 * price.n + price.d) \div (2 * price.d)

\* max(1.50, min(5.00, odds))
Clamp(odds) == IF odds < 150 THEN 150 ELSE IF odds > 500 THEN 500 ELSE odds

\* _generate_mock_odds, lines 161-220: never None
generate_mock_odds(features, random) ==
    IF features = <<"raises">> THEN [home |-> 200, draw |-> 340, away |-> 380]
    ELSE IF features = << >> THEN random
    ELSE LET total_power == features[1] + features[2] + (100 - features[3])
             home_win_pct == IF total_power <= 0 THEN 50 ELSE features[1]
             away_win_pct == IF total_power <= 0 THEN 50 ELSE features[2]
             home_prob == Q(home_win_pct, 100)
             away_prob == Q(away_win_pct, 100)
             rest == QAdd(QOne, QMul(QInt(-1), QAdd(home_prob, away_prob)))
             draw_prob == IF QLess(rest, Q(1, 20)) THEN Q(1, 20) ELSE rest
             prob_sum == QAdd(QAdd(home_prob, draw_prob), away_prob)
         IN  IF home_prob = QZero \/ away_prob = QZero
             THEN [home |-> 200, draw |-> 340, away |-> 380]   \* ZeroDivisionError
             ELSE [home |-> Clamp(MockPrice(QDiv(home_prob, prob_sum))),
                   draw |-> Clamp(MockPrice(QDiv(draw_prob, prob_sum))),
                   away |-> Clamp(MockPrice(QDiv(away_prob, prob_sum)))]

\* the fixtures without odds _get_target_fixtures finds
TARGET_FIXTURES == {<< >>, <<11>>, <<11, 12>>}

InitOdds ==
    /\ xi_base \in XI_BASES
    /\ home_advantage \in HOME_ADVANTAGES
    /\ rho \in RHOS
    /\ Constructed
    /\ NoMain
    /\ call = << >>
    /\ \E football_data_key \in BOOLEAN :
          etl = [fn |-> "collect_odds", pc |-> "idle",
                 football_data_key |-> football_data_key,
                 source |-> "", fixture_ids |-> << >>, i |-> 0,
                 returned |-> << >>,
                 odds_snapshots |-> {},
                 log |-> << >>]     \* per fixture: the sources asked, what
                                    \* the primary source yielded, the result

\* lines 56-68: the call.  A failed connection and an empty list of
\* fixtures return at once.
CollectBegin(source, connected, fixture_ids) ==
    /\ etl.fn = "collect_odds"
    /\ etl.pc = "idle"
    /\ etl.returned = << >>
    /\ IF ~connected
       THEN etl' = [etl EXCEPT !.source = source,
                               !.returned = <<[status |-> "error"]>>]
       ELSE IF fixture_ids = << >>
       THEN etl' = [etl EXCEPT !.source = source,
                               !.returned = <<[total |-> 0, success |-> 0, failed |-> 0]>>]
       ELSE etl' = [etl EXCEPT !.source = source, !.pc = "loop",
                               !.fixture_ids = fixture_ids, !.i = 1,
                               !.returned = <<[total |-> Len(fixture_ids),
                                               success |-> 0, failed |-> 0]>>]
    /\ UNCHANGED engine

\* lines 70-80, with _process_single_fixture (lines 288-303) and
\* _store_odds_snapshot (lines 305-331): one fixture.  Only the source
\* passed to collect_odds is asked.
ProcessSingleFixture ==
    /\ etl.fn = "collect_odds"
    /\ etl.pc = "loop"
    /\ etl.i <= Len(etl.fixture_ids)
    /\ \E answer \in PRIMARY_ANSWERS, features \in FEATURE_ROWS,
          random \in RANDOM_ODDS, stored \in BOOLEAN :
          LET fixture_id == etl.fixture_ids[etl.i]
              odds == IF etl.source = "football_data"
                      THEN try_football_data(etl.football_data_key, answer)
                      ELSE <<generate_mock_odds(features, random)>>
              success == odds # << >> /\ stored
              row == [fixture_id |-> fixture_id,
                      bookmaker_id |-> IF etl.source = "mock" THEN 999 ELSE 1,
                      odds |-> odds, data_source |-> etl.source]
              stats == etl.returned[1]
          IN  etl' = [etl EXCEPT
                  !.odds_snapshots = IF success THEN @ \cup {row} ELSE @,
                  !.returned = <<IF success
                                 THEN [stats EXCEPT !.success = @ + 1]
                                 ELSE [stats EXCEPT !.failed = @ + 1]>>,
                  !.log = Append(@, [fixture_id |-> fixture_id,
                                     asked |-> <<etl.source>>,
                                     odds |-> odds,
                                     success |-> success]),
                  !.i = @ + 1]
    /\ UNCHANGED engine

\* lines 82-83
CollectReturn ==
    /\ etl.fn = "collect_odds"
    /\ etl.pc = "loop"
    /\ etl.i > Len(etl.fixture_ids)
    /\ etl' = [etl EXCEPT !.pc = "idle"]
    /\ UNCHANGED engine

NextOdds ==
    \/ \E source \in ODDS_SOURCES, connected \in BOOLEAN,
          fixture_ids \in TARGET_FIXTURES :
           CollectBegin(source, connected, fixture_ids)
    \/ ProcessSingleFixture
    \/ CollectReturn

SpecOdds == InitOdds /\ [][NextOdds]_vars

\* C24: a fixture for which the primary source football_data yielded no odds
\* and which is counted as failed was also asked of the mock source.
C24_FallbackToMock ==
    \A k \in 1..Len(etl.log) :
        LET entry == etl.log[k]
        IN  (entry.asked[1] = "football_data" /\ entry.odds = << >> /\ ~entry.success)
            => \E n \in 1..Len(entry.asked) : entry.asked[n] = "mock"

(***************************************************************************)
(* fit() as a function of the history and the reference date               *)
(***************************************************************************)
\* C25: when fit() returns True, the attack and defense of every team of
\* the supplied history are those fit() gives that team on a newly
\* constructed model for the same history and reference date, whatever the
\* model was fitted on before.
C25_FitIsPureOnItsTeams ==
    [][(FitEnds /\ fit_result' = "True")
       => LET fresh == FitOnNewModel(xi_base, frame.matches, <<frame.current_date>>)
          IN  \A team \in TeamsIn(frame.matches) :
                 /\ team \in DOMAIN team_attack'
                 /\ team_attack'[team] = fresh.team_attack[team]
                 /\ team_defense'[team] = fresh.team_defense[team]]_vars

(***************************************************************************)
(* CheckpointManager (src/etl/checkpoint.py) over                          *)
(* monitoring.pipeline_checkpoints.  datetime.now() is a clock in half     *)
(* days; NULL and None are << >>.                                          *)
(***************************************************************************)
\* one day on the clock: (now - last_successful_run).days < 1 at line 60
DAY == 2

\* how far the clock runs
MaxClock == 3

\* the number of start_pipeline calls
MaxRuns == 3

\* the number of update_checkpoint calls of one run
MaxUpdates == 1

\* (pipeline_name, source_system, league_external_id)
CHECKPOINT_KEYS == {<<"historical_etl", "football-data.co.uk", "E0">>,
                    <<"historical_etl", "football-data.co.uk", "SP1">>}

NewCheckpoint ==
    [last_successful_run |-> << >>, records_processed |-> 0, is_active |-> TRUE,
     last_error |-> << >>, retry_count |-> 0]

InitCheckpoint ==
    /\ xi_base \in XI_BASES
    /\ home_advantage \in HOME_ADVANTAGES
    /\ rho \in RHOS
    /\ Constructed
    /\ NoMain
    /\ call = << >>
    /\ etl = [fn |-> "checkpoint",
              now |-> 0,
              pipeline_checkpoints |-> [key \in {} |-> NewCheckpoint],
              current_checkpoint |-> << >>,
              last_call |-> "__init__",
              returned |-> << >>,
              raised |-> FALSE,      \* the latest call caught a database error
              running |-> FALSE,     \* the caller is between a start_pipeline
                                     \* that returned True and its complete_pipeline
              starts |-> 0, updates |-> 0,
              last_run |-> [key \in {} |-> << >>]]   \* per key: how and when
                                                     \* the latest run ended

\* time passes
Tick ==
    /\ etl.fn = "checkpoint"
    /\ etl.now < MaxClock
    /\ etl' = [etl EXCEPT !.now = @ + 1]
    /\ UNCHANGED engine

\* start_pipeline, lines 17-70.  The upsert creates the row or sets
\* is_active, and returns the row's last_successful_run; a database error
\* is caught, rolled back and answered False.
StartPipeline(key, fails) ==
    /\ etl.fn = "checkpoint"
    /\ ~etl.running
    /\ etl.starts < MaxRuns
    /\ IF fails
       THEN etl' = [etl EXCEPT !.last_call = "start_pipeline", !.raised = TRUE,
                               !.returned = <<FALSE>>, !.starts = @ + 1]
       ELSE LET table == etl.pipeline_checkpoints
                row == IF key \in DOMAIN table
                       THEN [table[key] EXCEPT !.is_active = TRUE]
                       ELSE NewCheckpoint
                result == row.last_successful_run
                recent == result # << >> /\ etl.now - result[1] < DAY
            IN  etl' = [etl EXCEPT
                    !.pipeline_checkpoints =
                        IF key \in DOMAIN table THEN [table EXCEPT ![key] = row]
                        ELSE table @@ (key :> row),
                    !.current_checkpoint = <<[checkpoint_id |-> key,
                                              last_successful_run |-> result]>>,
                    !.last_call = "start_pipeline",
                    !.raised = FALSE,
                    !.returned = <<~recent>>,
                    !.running = ~recent,
                    !.starts = @ + 1,
                    !.updates = 0,
                    !.last_run = IF recent THEN @
                                 ELSE IF key \in DOMAIN @
                                 THEN [@ EXCEPT ![key] = <<[ended |-> "open", at |-> etl.now]>>]
                                 ELSE @ @@ (key :> <<[ended |-> "open", at |-> etl.now]>>)]
    /\ UNCHANGED engine

\* update_checkpoint, lines 72-115, with additional_info = None
UpdateCheckpoint(records_processed, fails) ==
    /\ etl.fn = "checkpoint"
    /\ etl.running
    /\ etl.updates < MaxUpdates
    /\ IF etl.current_checkpoint = << >>
       THEN etl' = [etl EXCEPT !.last_call = "update_checkpoint",
                               !.raised = FALSE, !.returned = <<FALSE>>,
                               !.updates = @ + 1]
       ELSE IF fails
       THEN etl' = [etl EXCEPT !.last_call = "update_checkpoint",
                               !.raised = TRUE, !.returned = <<FALSE>>,
                               !.updates = @ + 1]
       ELSE LET key == etl.current_checkpoint[1].checkpoint_id
            IN  etl' = [etl EXCEPT
                    !.pipeline_checkpoints[key] =
                        [@ EXCEPT !.last_successful_run = <<etl.now>>,
                                  !.records_processed = @ + records_processed],
                    !.last_call = "update_checkpoint",
                    !.raised = FALSE,
                    !.returned = <<TRUE>>,
                    !.updates = @ + 1]
    /\ UNCHANGED engine

\* complete_pipeline, lines 117-160
CompletePipeline(success, fails) ==
    /\ etl.fn = "checkpoint"
    /\ etl.running
    /\ IF etl.current_checkpoint = << >>
       THEN etl' = [etl EXCEPT !.last_call = "complete_pipeline",
                               !.raised = FALSE, !.returned = <<FALSE>>]
       ELSE IF fails
       THEN etl' = [etl EXCEPT !.last_call = "complete_pipeline",
                               !.raised = TRUE, !.returned = <<FALSE>>]
       ELSE LET key == etl.current_checkpoint[1].checkpoint_id
            IN  etl' = [etl EXCEPT
                    !.pipeline_checkpoints[key] =
                        [@ EXCEPT !.is_active = FALSE,
                                  !.last_error = IF success THEN << >>
                                                 ELSE <<"error_message">>,
                                  !.retry_count = IF success THEN @ ELSE @ + 1],
                    !.current_checkpoint = << >>,
                    !.last_call = "complete_pipeline",
                    !.raised = FALSE,
                    !.returned = <<TRUE>>,
                    !.running = FALSE,
                    !.last_run[key] = <<[ended |-> IF success THEN "success"
                                                   ELSE "failed",
                                         at |-> etl.now]>>]
    /\ UNCHANGED engine

NextCheckpoint ==
    \/ Tick
    \/ \E key \in CHECKPOINT_KEYS, fails \in BOOLEAN : StartPipeline(key, fails)
    \/ \E records_processed \in {380}, fails \in BOOLEAN :
           UpdateCheckpoint(records_processed, fails)
    \/ \E success \in BOOLEAN, fails \in BOOLEAN : CompletePipeline(success, fails)

SpecCheckpoint == InitCheckpoint /\ [][NextCheckpoint]_vars

\* a step in which start_pipeline returns without a database error
StartPipelineReturns ==
    /\ etl.fn = "checkpoint"
    /\ etl'.starts = etl.starts + 1
    /\ ~etl'.raised

\* C26: when start_pipeline returns False without a database error, the
\* latest run of the same key ended with complete_pipeline(success=True)
\* less than a day ago; and when the latest run of the key ended with
\* complete_pipeline(success=False), start_pipeline returns True.
C26_SkipOnlyAfterRecentSuccess ==
    [][StartPipelineReturns
       => LET key == etl'.current_checkpoint[1].checkpoint_id
              latest == IF key \in DOMAIN etl.last_run THEN etl.last_run[key]
                        ELSE << >>
          IN  /\ etl'.returned = <<FALSE>>
                 => /\ latest # << >>
                    /\ latest[1].ended = "success"
                    /\ etl.now - latest[1].at < DAY
              /\ (latest # << >> /\ latest[1].ended = "failed")
                 => etl'.returned = <<TRUE>>]_vars

(***************************************************************************)
(* The stored count printed after the commit                               *)
(***************************************************************************)
\* the rows of the table written by the store that has just been committed
\* (calculated_at is the NOW() of that store)
PersistedBy(rows, store) == {k \in 1..Len(rows) : rows[k].calculated_at = store}

\* C27: when a batch is committed, stored_count is the number of the batch's
\* predictions that the table holds after the commit.
C27_StoredCountIsPersistedCount ==
    [][StoreEnds
       => db.stored_count = Cardinality(PersistedBy(db'.table, db.stores))]_vars

(***************************************************************************)
(* fit() on histories of valid match records                               *)
(***************************************************************************)
\* every record of the history has home_goals >= 0 and away_goals >= 0
ValidHistory(matches) ==
    /\ matches # << >>
    /\ \A k \in 1..Len(matches) :
          matches[k].home_goals >= 0 /\ matches[k].away_goals >= 0

\* C28: a fit() call on a non-empty history of valid match records ends by
\* returning True, never by raising an arithmetic error.
C28_FitCompletesOnValidHistory ==
    [][(FitEnds /\ ValidHistory(frame.matches))
       => fit_result' = "True"]_vars

(***************************************************************************)
(* main(): get_training_data and the split into training and test matches *)
(***************************************************************************)
\* limit of get_training_data
QUERY_LIMIT == 1000

\* raw.fixtures: n rows in the order of their dates, the last of them not
\* played yet (home_goals IS NULL); one match a day, a round of ten matches
\* a day, or every match on one day
FixturesTable(n, calendar) ==
    [k \in 1..n |->
        [fixture_id |-> k,
         match_date |-> IF calendar = "daily" THEN k
                        ELSE IF calendar = "rounds" THEN (k + 9) \div 10
                        ELSE 1,
         played |-> k < n]]

FIXTURES_TABLES ==
    {FixturesTable(n, calendar) :
        n \in {MIN_MATCHES, MIN_MATCHES + 1, MIN_MATCHES + 6},
        calendar \in {"daily", "rounds", "one day"}}

Reverse(s) == [k \in 1..Len(s) |-> s[Len(s) + 1 - k]]

\* get_training_data, lines 66-93: the played fixtures, latest first (ORDER
\* BY match_date DESC; rows of one date come in the reverse of the table's
\* order), at most limit of them; None below MIN_MATCHES rows
get_training_data(table, limit) ==
    LET rows == Reverse(SelectSeq(table, LAMBDA r : r.played))
        matches == IF Len(rows) > limit THEN SubSeq(rows, 1, limit) ELSE rows
    IN  IF Len(matches) < MIN_MATCHES THEN << >> ELSE <<matches>>

InitSplit ==
    /\ xi_base \in XI_BASES
    /\ home_advantage \in HOME_ADVANTAGES
    /\ rho \in RHOS
    /\ Constructed
    /\ etl = << >>
    /\ call = << >>
    /\ db = << >>
    /\ \E table \in FIXTURES_TABLES :
          calib = [pc |-> "start", fixtures |-> table, matches |-> << >>,
                   train_matches |-> << >>, test_matches |-> << >>,
                   fitted_on |-> << >>,    \* the argument of model.fit
                   i |-> 0,
                   scored |-> << >>]       \* fixture_id of each test match predicted

\* main lines 357-365 (simple main lines 203-210): the query, the early
\* return, the split at int(len(matches) * 0.8)
SplitMatches ==
    /\ calib.pc = "start"
    /\ LET result == get_training_data(calib.fixtures, QUERY_LIMIT)
       IN  IF result = << >>
           THEN calib' = [calib EXCEPT !.pc = "returned"]
           ELSE LET matches == result[1]
                    split_idx == (Len(matches) * 8) \div 10
                IN  calib' = [calib EXCEPT
                        !.pc = "split",
                        !.matches = matches,
                        !.train_matches = SubSeq(matches, 1, split_idx),
                        !.test_matches = SubSeq(matches, split_idx + 1, Len(matches))]
    /\ UNCHANGED <<model_state, frame, fit_result, stdout, pred, pred_fresh,
                   reads, nfits, call, db, etl>>

\* main lines 371-372 (simple main lines 216-217): model.fit(train_matches)
FitTrainMatches ==
    /\ calib.pc = "split"
    /\ calib' = [calib EXCEPT !.pc = "loop", !.fitted_on = calib.train_matches,
                              !.i = 1]
    /\ UNCHANGED <<model_state, frame, fit_result, stdout, pred, pred_fresh,
                   reads, nfits, call, db, etl>>

\* main lines 379-401 (simple main lines 223-250): the test match i is
\* predicted and scored
ScoreTestMatch ==
    /\ calib.pc = "loop"
    /\ calib.i <= Len(calib.test_matches)
    /\ calib' = [calib EXCEPT
            !.scored = Append(@, calib.test_matches[calib.i].fixture_id),
            !.i = @ + 1]
    /\ UNCHANGED <<model_state, frame, fit_result, stdout, pred, pred_fresh,
                   reads, nfits, call, db, etl>>

NextSplit ==
    \/ SplitMatches
    \/ FitTrainMatches
    \/ ScoreTestMatch

SpecSplit == InitSplit /\ [][NextSplit]_vars

\* C29: no fixture is both in the matches the model was fitted on and in
\* the test matches, and every match the model was fitted on is dated no
\* later than every test match the model is scored on.
C29_TrainedOnThePast ==
    \A k \in 1..Len(calib.fitted_on), j \in 1..Len(calib.scored) :
        LET trained == calib.fitted_on[k]
            test == calib.test_matches[j]
        IN  /\ trained.fixture_id # test.fixture_id
            /\ trained.match_date <= test.match_date

(***************************************************************************)
(* main(): the parameters stored with each prediction                      *)
(***************************************************************************)
\* home_advantage of the constructor
PERSIST_ADVANTAGES == {QZero, Q(3, 10), Q(1, 2)}

\* the training matches
PersistHistory == Select({1, 2}, 1)

InitPersist ==
    /\ xi_base \in XI_BASES
    /\ home_advantage \in PERSIST_ADVANTAGES
    /\ rho \in RHOS
    /\ Constructed
    /\ etl = << >>
    /\ call = << >>
    /\ calib = << >>
    /\ db = [variant |-> "full", table |-> << >>, work |-> << >>,
             failed |-> FALSE, pc |-> "main", predictions |-> << >>, i |-> 0,
             stored_count |-> 0, warnings |-> << >>]

\* main lines 383-384 and 401: the prediction of a test match gets its
\* fixture_id and is appended to predictions
KeepPrediction(fixture_id) ==
    /\ db.pc = "main"
    /\ frame.pc = "idle"
    /\ fit_result = "True"
    /\ pred # << >>
    /\ pred_fresh
    /\ Len(db.predictions) < MaxCalls
    /\ \A k \in 1..Len(db.predictions) : db.predictions[k].fixture_id < fixture_id
    /\ db' = [db EXCEPT !.predictions =
                  Append(@, pred[1].result @@ ("fixture_id" :> fixture_id))]
    /\ pred' = << >>
    /\ pred_fresh' = FALSE
    /\ UNCHANGED <<model_state, frame, fit_result, stdout, reads, nfits, call,
                   calib, etl>>

\* main line 431, store_predictions lines 302-306
PersistBegin ==
    /\ db.pc = "main"
    /\ frame.pc = "idle"
    /\ db.predictions # << >>
    /\ db' = [db EXCEPT !.pc = "store", !.i = 1, !.stored_count = 0]
    /\ UNCHANGED <<model_state, frame, fit_result, stdout, pred, pred_fresh,
                   reads, nfits, call, calib, etl>>

\* store_predictions lines 307-347: one iteration, with the parameter
\* columns and the expected goals of the row.  The dict predict() returns
\* has no key 'home_advantage'.
PersistExecute ==
    /\ db.pc = "store"
    /\ db.i <= Len(db.predictions)
    /\ LET p == db.predictions[db.i]
           values == [dc_attack_home |-> ToDecimal(p.home_attack, 8, 6),
                      dc_attack_away |-> ToDecimal(p.away_attack, 8, 6),
                      dc_defense_home |-> ToDecimal(p.home_defense, 8, 6),
                      dc_defense_away |-> ToDecimal(p.away_defense, 8, 6),
                      dc_rho_parameter |-> ToDecimal(p.rho, 8, 6),
                      dc_home_advantage |->
                          ToDecimal(Get(p, "home_advantage", Q(3, 10)), 8, 6),
                      dc_expected_home_goals |-> ToDecimal(p.expected_home_goals, 8, 6),
                      dc_expected_away_goals |-> ToDecimal(p.expected_away_goals, 8, 6)]
           raises == db.failed \/ \E c \in DOMAIN values : values[c] = << >>
       IN  IF ~raises
           THEN db' = [db EXCEPT
                    !.work = Upsert(@, [c \in DOMAIN values |-> values[c][1]]
                                           @@ ("fixture_id" :> p.fixture_id)),
                    !.stored_count = @ + 1,
                    !.i = @ + 1]
           ELSE db' = [db EXCEPT !.warnings = Append(@, p.fixture_id),
                                 !.failed = TRUE,
                                 !.i = @ + 1]
    /\ UNCHANGED <<model_state, frame, fit_result, stdout, pred, pred_fresh,
                   reads, nfits, call, calib, etl>>

\* main line 432: conn.commit()
PersistCommit ==
    /\ db.pc = "store"
    /\ db.i > Len(db.predictions)
    /\ LET table == IF db.failed THEN db.table ELSE db.work
       IN  db' = [db EXCEPT !.table = table, !.work = table, !.failed = FALSE,
                            !.pc = "done"]
    /\ UNCHANGED <<model_state, frame, fit_result, stdout, pred, pred_fresh,
                   reads, nfits, call, calib, etl>>

\* main: fit(train_matches), then predict() for each test match, then the
\* store and the commit
NextPersist ==
    \/ nfits = 0 /\ pred = << >> /\ FitBegin(PersistHistory, << >>)
    \/ FitMatch
    \/ FitLeagueAverage
    \/ FitTeam
    \/ FitMeanAttack
    \/ FitNormalize
    \/ FitReturn
    \/ \E p \in Pairs :
           fit_result = "True" /\ db.pc = "main" /\ pred = << >> /\ PredictCall(p[1], p[2])
    \/ \E fixture_id \in FIXTURE_IDS : KeepPrediction(fixture_id)
    \/ PersistBegin
    \/ PersistExecute
    \/ PersistCommit

SpecPersist == InitPersist /\ [][NextPersist]_vars

\* C30: the dc_home_advantage of every row of features.match_features, in
\* the table and in the open transaction, is the home_advantage of the
\* model whose predict() produced the row (as DECIMAL(8,6)).
C30_StoredHomeAdvantageIsTheModels ==
    \A k \in 1..Len(db.work) :
        <<db.work[k].dc_home_advantage>> = ToDecimal(home_advantage, 8, 6)

=============================================================================
